---- MODULE Spec2Model ----
(***************************************************************************)
(* Model of the authenticated rotating proxy gateway (src/server.js).      *)
(*                                                                         *)
(* JavaScript strings are sequences of one-character strings, so that the  *)
(* character-level operations of the code (split, charCodeAt, startsWith,  *)
(* toLowerCase, URL parsing) are computed and not assumed.  An absent      *)
(* query parameter or header value read through x || y is the empty      *)
(* sequence: undefined and '' are both falsy on every path of the code.    *)
(***************************************************************************)
EXTENDS Integers, Sequences, FiniteSets, TLC

\* ------------------------------------------------------------------ bounds
MaxLen == 3          \* longest string hashed in SpecHash
MaxOver == 1         \* hits counted beyond the ceiling in one window of one key
MaxInFlight == 2     \* handlers suspended at await fetch at the same time
MaxTicks == 2        \* clock advances in one run

\* ----------------------------------------------------------------- strings
\* Printable ASCII in code order: ASCII[i] has char code 31 + i.  The six
\* characters that cannot stand in a string literal here are named in angle
\* brackets; no modelled input contains them.
ASCII ==
  << " ", "!", "<dquote>", "#", "$", "%", "&", "'", "<lparen>", "<rparen>", "<star>", "+", ",", "-", ".", "/",
     "0", "1", "2", "3", "4", "5", "6", "7", "8", "9", ":", ";", "<", "=", ">", "?",
     "@", "A", "B", "C", "D", "E", "F", "G", "H", "I", "J", "K", "L", "M", "N", "O",
     "P", "Q", "R", "S", "T", "U", "V", "W", "X", "Y", "Z", "[", "<backslash>", "]", "^", "_",
     "<backtick>", "a", "b", "c", "d", "e", "f", "g", "h", "i", "j", "k", "l", "m", "n", "o",
     "p", "q", "r", "s", "t", "u", "v", "w", "x", "y", "z", "{", "|", "}", "~" >>

\* the char code of every character of ASCII
CharCodes == [c \in {ASCII[i] : i \in 1..Len(ASCII)} |->
                31 + (CHOOSE i \in 1..Len(ASCII) : ASCII[i] = c)]

\* String.prototype.charCodeAt for one character
charCodeAt(c) == CharCodes[c]

\* index of the first occurrence of character c in s, 0 when there is none
RECURSIVE IndexFrom(_, _, _)
IndexFrom(s, c, i) ==
  IF i > Len(s) THEN 0
  ELSE IF s[i] = c THEN i
  ELSE IndexFrom(s, c, i + 1)

IndexOfChar(s, c) == IndexFrom(s, c, 1)

\* s.split(c)[0]
SplitFirst(s, c) ==
  LET i == IndexOfChar(s, c)
  IN  IF i = 0 THEN s ELSE SubSeq(s, 1, i - 1)

\* s.startsWith(p)
startsWith(s, p) == Len(s) >= Len(p) /\ SubSeq(s, 1, Len(p)) = p

\* s.split(c): the pieces of s between occurrences of character c
RECURSIVE Split(_, _)
Split(s, c) ==
  LET i == IndexOfChar(s, c)
  IN  IF i = 0 THEN << s >>
      ELSE << SubSeq(s, 1, i - 1) >> \o Split(SubSeq(s, i + 1, Len(s)), c)

\* s.trim(), for the space character
RECURSIVE TrimLeft(_)
TrimLeft(s) ==
  IF Len(s) > 0 /\ s[1] = " " THEN TrimLeft(Tail(s)) ELSE s

RECURSIVE TrimRight(_)
TrimRight(s) ==
  IF Len(s) > 0 /\ s[Len(s)] = " " THEN TrimRight(SubSeq(s, 1, Len(s) - 1)) ELSE s

trim(s) == TrimRight(TrimLeft(s))

\* String.prototype.toLowerCase on one ASCII character, and on a string
LowerChar(c) ==
  LET k == charCodeAt(c)
  IN  IF k >= 65 /\ k <= 90 THEN ASCII[k + 32 - 31] ELSE c

toLowerCase(s) == [i \in 1..Len(s) |-> LowerChar(s[i])]

HexDigits == << "0", "1", "2", "3", "4", "5", "6", "7", "8", "9", "A", "B", "C", "D", "E", "F" >>

IsAlnum(c) ==
  LET k == charCodeAt(c)
  IN  (k >= 48 /\ k <= 57) \/ (k >= 65 /\ k <= 90) \/ (k >= 97 /\ k <= 122)

IsAlpha(c) ==
  LET k == charCodeAt(c)
  IN  (k >= 65 /\ k <= 90) \/ (k >= 97 /\ k <= 122)

\* characters encodeURIComponent leaves as they are
IsUnreserved(c) ==
  IsAlnum(c) \/ c \in {"-", "_", ".", "!", "~", "'", "<star>", "<lparen>", "<rparen>"}

\* encodeURIComponent, on ASCII: every other character becomes %XX
RECURSIVE encodeURIComponent(_)
encodeURIComponent(s) ==
  IF s = << >> THEN << >>
  ELSE LET c == Head(s)
           k == charCodeAt(c)
       IN  (IF IsUnreserved(c) THEN << c >>
            ELSE << "%", HexDigits[(k \div 16) + 1], HexDigits[(k % 16) + 1] >>)
           \o encodeURIComponent(Tail(s))

\* value of a hexadecimal digit, -1 when c is none
HexValue(c) ==
  LET u == IF IsAlpha(c) /\ charCodeAt(c) >= 97 THEN ASCII[charCodeAt(c) - 32 - 31] ELSE c
  IN  IF \E i \in 1..16 : HexDigits[i] = u
      THEN (CHOOSE i \in 1..16 : HexDigits[i] = u) - 1
      ELSE -1

\* decodeURIComponent, on ASCII: [ok |-> FALSE] is the URIError it throws on a
\* % that is not followed by two hexadecimal digits of a printable character
RECURSIVE decodeURIComponent(_)
decodeURIComponent(s) ==
  IF s = << >> THEN [ok |-> TRUE, str |-> << >>]
  ELSE IF Head(s) # "%"
  THEN LET r == decodeURIComponent(Tail(s))
       IN  [ok |-> r.ok, str |-> << Head(s) >> \o r.str]
  ELSE IF Len(s) < 3 \/ HexValue(s[2]) < 0 \/ HexValue(s[3]) < 0
  THEN [ok |-> FALSE, str |-> << >>]
  ELSE LET k == (HexValue(s[2]) * 16) + HexValue(s[3])
           r == decodeURIComponent(SubSeq(s, 4, Len(s)))
       IN  IF k < 32 \/ k > 126 THEN [ok |-> FALSE, str |-> << >>]
           ELSE [ok |-> r.ok, str |-> << ASCII[k - 31] >> \o r.str]

\* ------------------------------------------------------- 32-bit arithmetic
\* A 32-bit word is [hi, lo], two 16-bit halves: word = hi * 2^16 + lo.
Half == 256 * 256

RECURSIVE BitXor(_, _)
BitXor(a, b) ==
  IF a = 0 THEN b
  ELSE IF b = 0 THEN a
  ELSE (((a % 2) + (b % 2)) % 2) + 2 * BitXor(a \div 2, b \div 2)

\* h ^ c for a char code c < 2^16: only the low half changes
XorWord(h, c) == [hi |-> h.hi, lo |-> BitXor(h.lo, c)]

\* Math.imul(h, 16777619): the low 32 bits of h * (2^24 + 403)
ImulPrime(h) ==
  LET lo403 == h.lo * 403
  IN  [hi |-> ((h.hi * 403) + (lo403 \div Half) + ((h.lo % 256) * 256)) % Half,
       lo |-> lo403 % Half]

\* 2^32 - w, for a word w > 0
NegWord(w) ==
  IF w.lo = 0 THEN [hi |-> (Half - w.hi) % Half, lo |-> 0]
  ELSE [hi |-> Half - 1 - w.hi, lo |-> Half - w.lo]

\* the number hi * 2^16 + lo modulo n
WordMod(w, n) == (((w.hi % n) * (Half % n)) + (w.lo % n)) % n

\* 2166136261 = 0x811C9DC5
FnvOffset == [hi |-> 33052, lo |-> 40389]

RECURSIVE FnvLoop(_, _, _)
FnvLoop(s, i, h) ==
  IF i > Len(s) THEN h
  ELSE FnvLoop(s, i + 1, ImulPrime(XorWord(h, charCodeAt(s[i]))))

\* Math.abs of the accumulator.  After one or more rounds h is an int32 (the
\* results of ^ and Math.imul are signed), so a word with its top bit set is
\* negative and Math.abs yields 2^32 - word.  With no round h is still the
\* double 2166136261.
MathAbs(s, h) ==
  IF Len(s) > 0 /\ h.hi >= 32768 THEN NegWord(h) ELSE h

hashStringToInt(s) == MathAbs(s, FnvLoop(s, 1, FnvOffset))

\* ------------------------------------------------------------------- state
VARIABLES
  ROTATION_MODE,  \* process.env.ROTATION_MODE, fixed at startup
  VALID_TOKENS,   \* process.env.VALID_TOKENS, fixed at startup
  rrCounter,      \* rotation state of pickNodeRoundRobin
  hits,           \* the rate limiter's store: key -> [totalHits, resetTime]
  now,            \* the clock, in ms since startup
  inflight,       \* slot -> the response object of a handler suspended at await fetch
  last,           \* what the last step did: the request, the response, the fetch
  rrLog,          \* history: the node indexes pickNodeRoundRobin returned, in call order
  stickyLog,      \* history: the pairs << identity, node >> of sticky forwards
  hashIn,         \* SpecHash: the argument
  hashOut,        \* SpecHash: the value hashStringToInt returned for it
  tokenIn,        \* SpecToken: the argument
  tokenOut,       \* SpecToken: the value isValidToken returned for it
  shim,           \* SpecShim: the service worker variant that runs
  PROXY_HOST,     \* the shim's gateway base (proxyHost in sw-proxy.js)
  PROXY_ENABLED,  \* the shim's switch (enabled in sw-proxy.js)
  AUTH_TOKEN,     \* the shim's token (authToken in sw-proxy.js)
  sentToken,      \* history: the token of the page's last SET_AUTH_TOKEN message
  sentHost,       \* history: the host of the page's last SET_PROXY_HOST message
  sentSwitch,     \* history: the page's last ENABLE_PROXY / DISABLE_PROXY message
  shimLast,       \* what the shim did with the last fetch event
  filterIn,       \* SpecFilter: the header collection
  filterOut       \* SpecFilter: what a header filter made of it, applied once and twice

tokenVars == << tokenIn, tokenOut >>
filterVars == << filterIn, filterOut >>
shimVars ==
  << shim, PROXY_HOST, PROXY_ENABLED, AUTH_TOKEN, sentToken, sentHost, sentSwitch, shimLast >>

vars == << ROTATION_MODE, VALID_TOKENS, rrCounter, hits, now, inflight, last,
           rrLog, stickyLog, hashIn, hashOut, tokenVars, shimVars, filterVars >>

\* ------------------------------------------------------------ configuration
\* PROXY_NODES: three upstream bases, the second written with a trailing slash
U1 == << "h", "t", "t", "p", ":", "/", "/", "u", "1" >>
U2 == << "h", "t", "t", "p", ":", "/", "/", "u", "2", "/" >>
U3 == << "h", "t", "t", "p", ":", "/", "/", "u", "3" >>
PROXY_NODES == << U1, U2, U3 >>
NodeCount == Len(PROXY_NODES)

\* PROXY_RATE_LIMIT: the ceiling of the rate limiter (120 when the variable is unset)
PROXY_RATE_LIMIT == 2

windowMs == 60 * 1000

TOKEN_ABC == << "a", "b", "c" >>
TOKEN_BAD == << "b", "a", "d" >>

ORIGIN_APP == << "h", "t", "t", "p", "s", ":", "/", "/", "a", "p", "p" >>
ALLOWED_ORIGINS == { ORIGIN_APP }

\* ------------------------------------------------------------------ inputs
IP_A == << "1", "0", ".", "0", ".", "0", ".", "1" >>
IP_B == << "5", ".", "6", ".", "7", ".", "8" >>
XFF_B_A == << "5", ".", "6", ".", "7", ".", "8", ",", " ", "1", "0", ".", "0", ".", "0", ".", "1" >>
URL_OK == << "h", "t", "t", "p", "s", ":", "/", "/", "a", ".", "i", "o" >>
URL_HTTP == << "H", "T", "T", "P", ":", "/", "/", "a", ".", "i", "o", "/", "x", "?", "y", "=", "1" >>
URL_FTP == << "f", "t", "p", ":", "/", "/", "a", ".", "i", "o" >>
URL_REL == << "n", "o", "t", "-", "a", "-", "u", "r", "l" >>
URL_NOHOST == << "h", "t", "t", "p", "s", ":", "/", "/" >>
COOKIE_U3 == << "s", "i", "d", "=", "1", ";", " ", "p", "r", "o", "x", "y", "-", "n", "o", "d", "e", "=", "h", "t", "t", "p", "%", "3", "A", "%", "2", "F", "%", "2", "F", "u", "3" >>
COOKIE_OTHER == << "p", "r", "o", "x", "y", "-", "n", "o", "d", "e", "=", "h", "t", "t", "p", "%", "3", "A", "%", "2", "F", "%", "2", "F", "u", "9" >>
COOKIE_BROKEN == << "p", "r", "o", "x", "y", "-", "n", "o", "d", "e", "=", "%", "z", "z" >>
COOKIE_ISSUED_U2 == << "p", "r", "o", "x", "y", "-", "n", "o", "d", "e", "=", "h", "t", "t", "p", "%", "3", "A", "%", "2", "F", "%", "2", "F", "u", "2", "%", "2", "F" >>
CT_JSON == << "a", "p", "p", "l", "i", "c", "a", "t", "i", "o", "n", "/", "j", "s", "o", "n" >>
CT_TEXT == << "t", "e", "x", "t", "/", "p", "l", "a", "i", "n" >>
V_WEBSOCKET == << "w", "e", "b", "s", "o", "c", "k", "e", "t" >>
V_CLOSE == << "c", "l", "o", "s", "e" >>
V_TRAILERS == << "t", "r", "a", "i", "l", "e", "r", "s" >>
V_GZIP == << "g", "z", "i", "p" >>
V_HOST == << "g", "w", ".", "i", "o" >>
V_17 == << "1", "7" >>
V_BASIC == << "B", "a", "s", "i", "c", " ", "x" >>
V_CHUNKED == << "c", "h", "u", "n", "k", "e", "d" >>
V_TIMEOUT == << "t", "i", "m", "e", "o", "u", "t", "=", "5" >>
V_HTML == << "t", "e", "x", "t", "/", "h", "t", "m", "l" >>
V_SID == << "s", "i", "d", "=", "9" >>

\* the keys the rate limiter can see
Keys == {IP_A, IP_B, << >>}

Request(path, method, ip, wire, url, token, raw) ==
  [path |-> path, method |-> method, ip |-> ip, wire |-> wire, url |-> url,
   token |-> token, raw |-> raw]

NoHeaders == [n \in {} |-> << >>]
NoReq == Request("", "", << >>, NoHeaders, << >>, << >>, "")
NoUpstream == [status |-> 0, wire |-> NoHeaders]

Tok(t) == "X-Proxy-Auth" :> t

\* Spec: /proxy requests of two peers, with the token in the header or in the
\* query, without one and with a wrong one
ProxyRequests ==
  { Request("/proxy", "GET", IP_A, Tok(TOKEN_ABC), URL_OK, << >>, ""),
    Request("/proxy", "GET", IP_B, NoHeaders, URL_HTTP, TOKEN_ABC, ""),
    Request("/proxy", "GET", IP_A, NoHeaders, URL_OK, << >>, ""),
    Request("/proxy", "POST", IP_B, Tok(TOKEN_BAD), URL_OK, TOKEN_ABC, "") }

\* SpecValidate: every way to fail the token and the url check, a preflight
\* and a body the JSON parser rejects, from one peer
ValidateRequests ==
  { Request("/proxy", "GET", IP_A, Tok(TOKEN_ABC), URL_OK, << >>, ""),
    Request("/proxy", "PUT", IP_A, NoHeaders, URL_HTTP, TOKEN_ABC, ""),
    Request("/proxy", "GET", IP_A, NoHeaders, URL_OK, << >>, ""),
    Request("/proxy", "GET", IP_A, Tok(TOKEN_BAD), URL_OK, TOKEN_ABC, ""),
    Request("/proxy", "GET", IP_A, Tok(TOKEN_ABC), URL_OK, TOKEN_BAD, ""),
    Request("/proxy", "POST", IP_A, NoHeaders, URL_REL, TOKEN_BAD, ""),
    Request("/proxy", "GET", IP_A, Tok(TOKEN_ABC), << >>, << >>, ""),
    Request("/proxy", "GET", IP_A, Tok(TOKEN_ABC), URL_REL, << >>, ""),
    Request("/proxy", "DELETE", IP_A, Tok(TOKEN_ABC), URL_FTP, << >>, ""),
    Request("/proxy", "GET", IP_A, NoHeaders, URL_NOHOST, TOKEN_ABC, ""),
    Request("/proxy", "OPTIONS", IP_A, NoHeaders, URL_OK, << >>, ""),
    Request("/proxy", "POST", IP_A, "Content-Type" :> CT_JSON, URL_OK, << >>, "{bad") }

\* SpecSelect: accepted and rejected requests with and without a peer
\* address, a forwarded-for header and a proxy-node cookie
SelectRequests ==
  { Request("/proxy", "GET", IP_A, Tok(TOKEN_ABC), URL_OK, << >>, ""),
    Request("/proxy", "GET", IP_A, Tok(TOKEN_ABC) @@ ("X-Forwarded-For" :> XFF_B_A), URL_OK, << >>, ""),
    Request("/proxy", "GET", << >>, Tok(TOKEN_ABC) @@ ("X-Forwarded-For" :> XFF_B_A), URL_OK, << >>, ""),
    Request("/proxy", "GET", << >>, Tok(TOKEN_ABC) @@ ("Cookie" :> COOKIE_U3), URL_OK, << >>, ""),
    Request("/proxy", "GET", << >>, Tok(TOKEN_ABC) @@ ("Cookie" :> COOKIE_OTHER), URL_OK, << >>, ""),
    Request("/proxy", "GET", << >>, Tok(TOKEN_ABC) @@ ("Cookie" :> COOKIE_ISSUED_U2), URL_OK, << >>, ""),
    Request("/proxy", "GET", << >>, Tok(TOKEN_ABC) @@ ("Cookie" :> COOKIE_BROKEN), URL_OK, << >>, ""),
    Request("/proxy", "GET", << >>, Tok(TOKEN_ABC), URL_OK, << >>, ""),
    Request("/proxy", "GET", IP_A, NoHeaders, URL_OK, << >>, ""),
    Request("/proxy", "GET", << >>, Tok(TOKEN_ABC), URL_REL, << >>, "") }

HealthRequests ==
  { Request("/health", "GET", IP_A, NoHeaders, << >>, << >>, "") }

ValidateKeyRequests ==
  { Request("/validate-key", "POST", IP_A, "Content-Type" :> CT_JSON, << >>, << >>, "{'token':'abc'}"),
    Request("/validate-key", "POST", IP_A, "Content-Type" :> CT_JSON, << >>, << >>, "{'token':'bad'}"),
    Request("/validate-key", "POST", IP_A, "Content-Type" :> CT_JSON, << >>, << >>, "{'a':1}"),
    Request("/validate-key", "POST", IP_A, "Content-Type" :> CT_JSON, << >>, << >>, "{bad"),
    Request("/validate-key", "POST", IP_A, NoHeaders, << >>, << >>, "") }

\* SpecHeaders: one accepted request with none, with each one and with all of
\* the inbound headers below, in the letter case given
InboundHeaders ==
  ("Host" :> V_HOST) @@ ("Connection" :> V_CLOSE) @@ ("Content-Length" :> V_17)
  @@ ("accept-encoding" :> V_GZIP) @@ ("Proxy-Authorization" :> V_BASIC)
  @@ ("Proxy-Authenticate" :> V_BASIC) @@ ("Keep-Alive" :> V_TIMEOUT)
  @@ ("Transfer-Encoding" :> V_CHUNKED) @@ ("TE" :> V_TRAILERS)
  @@ ("Trailers" :> V_SID) @@ ("UPGRADE" :> V_WEBSOCKET)
  @@ ("Accept" :> V_HTML) @@ ("Cookie" :> V_SID)

Restrict(f, D) == [n \in D |-> f[n]]

\* none, each one, all
Selections(D) == {{}, D} \cup {{n} : n \in D}

HeaderRequests ==
  { Request("/proxy", "GET", IP_A, Tok(TOKEN_ABC) @@ Restrict(InboundHeaders, D),
            URL_OK, << >>, "") : D \in Selections(DOMAIN InboundHeaders) }

\* SpecHeaders: upstream responses with none, with each one and with all of
\* the headers below
UpstreamHeaders ==
  ("Connection" :> V_CLOSE) @@ ("Transfer-Encoding" :> V_CHUNKED)
  @@ ("Keep-Alive" :> V_TIMEOUT) @@ ("Proxy-Authorization" :> V_BASIC)
  @@ ("Proxy-Authenticate" :> V_BASIC) @@ ("TE" :> V_TRAILERS)
  @@ ("Trailers" :> V_SID) @@ ("Upgrade" :> V_WEBSOCKET)
  @@ ("Content-Type" :> V_HTML) @@ ("Set-Cookie" :> V_SID)
  @@ ("Access-Control-Allow-Origin" :> ORIGIN_APP)

HeaderResponses ==
  { [status |-> st, wire |-> Restrict(UpstreamHeaders, D)] :
      st \in {200, 404}, D \in Selections(DOMAIN UpstreamHeaders) }

UpstreamResponses ==
  { [status |-> 200, wire |-> "Content-Type" :> V_HTML],
    [status |-> 404, wire |-> NoHeaders] }

\* SpecBody: accepted requests with and without a body, by method and
\* content type
BodyRequests ==
  { Request("/proxy", "POST", IP_A, Tok(TOKEN_ABC) @@ ("Content-Type" :> CT_TEXT), URL_OK, << >>, "hi"),
    Request("/proxy", "POST", IP_A, Tok(TOKEN_ABC) @@ ("Content-Type" :> CT_JSON), URL_OK, << >>, "{'a':1}"),
    Request("/proxy", "PUT", IP_A, Tok(TOKEN_ABC) @@ ("Content-Type" :> CT_JSON), URL_OK, << >>, "[1,2]"),
    Request("/proxy", "POST", IP_B, Tok(TOKEN_ABC), URL_OK, << >>, "hi"),
    Request("/proxy", "PUT", IP_B, Tok(TOKEN_ABC) @@ ("Content-Type" :> CT_TEXT), URL_OK, << >>, ""),
    Request("/proxy", "GET", IP_B, Tok(TOKEN_ABC) @@ ("Content-Type" :> CT_TEXT), URL_OK, << >>, "hi"),
    Request("/proxy", "HEAD", IP_A, Tok(TOKEN_ABC) @@ ("Content-Type" :> CT_JSON), URL_OK, << >>, "{'a':1}"),
    Request("/proxy", "DELETE", IP_B, Tok(TOKEN_ABC) @@ ("Content-Type" :> CT_TEXT), URL_OK, << >>, "hi") }

AllRequests ==
  ProxyRequests \cup ValidateRequests \cup SelectRequests \cup HealthRequests
  \cup ValidateKeyRequests \cup HeaderRequests \cup BodyRequests

\* ----------------------------------------------------------------- helpers
SpecialSchemes == { << "h", "t", "t", "p" >>, << "h", "t", "t", "p", "s" >>, << "f", "t", "p" >>, << "w", "s" >>, << "w", "s", "s" >> }

RECURSIVE StripSlashes(_)
StripSlashes(s) ==
  IF Len(s) > 0 /\ s[1] = "/" THEN StripSlashes(Tail(s)) ELSE s

\* the host of a special-scheme URL: what follows the slashes, up to / ? or #
HostOf(rest) == SplitFirst(SplitFirst(SplitFirst(StripSlashes(rest), "/"), "?"), "#")

\* new URL(u).protocol with no base: [ok |-> FALSE] when the constructor throws.
\* A scheme is a letter followed by letters, digits, + - . and then a colon; a
\* special scheme needs a non-empty host.
ParseUrl(u) ==
  LET i == IndexOfChar(u, ":")
      scheme == toLowerCase(SubSeq(u, 1, i - 1))
      rest == SubSeq(u, i + 1, Len(u))
  IN  IF i <= 1 \/ ~IsAlpha(u[1])
         \/ \E j \in 1..(i - 1) : ~(IsAlnum(u[j]) \/ u[j] \in {"+", "-", "."})
      THEN [ok |-> FALSE, protocol |-> << >>]
      ELSE IF scheme \in SpecialSchemes /\ HostOf(rest) = << >>
      THEN [ok |-> FALSE, protocol |-> << >>]
      ELSE [ok |-> TRUE, protocol |-> scheme \o << ":" >>]

isValidUrlMutant(u) == ParseUrl(u).ok

isValidUrl(u) ==
  LET parsed == ParseUrl(u)
  IN  parsed.ok /\ (parsed.protocol = << "h", "t", "t", "p", ":" >> \/ parsed.protocol = << "h", "t", "t", "p", "s", ":" >>)

\* isValidUrl on the url parameters of the model, computed once
validUrl == [u \in {req.url : req \in AllRequests} |-> isValidUrl(u)]

isValidTokenMutant(t) == t = << >> \/ t \in VALID_TOKENS

isValidToken(t) ==
  IF t = << >> THEN FALSE
  ELSE IF Cardinality(VALID_TOKENS) = 0 THEN FALSE
  ELSE t \in VALID_TOKENS

\* ----------------------------------------------------------------- headers
\* The lower-case form of the header names of the model: Node's HTTP parser
\* stores req.headers under it, node-fetch's Headers iterate under it, and
\* res.setHeader keys the response's headers by it.
LowerName(n) ==
  CASE n = "Host" -> "host"
    [] n = "Connection" -> "connection"
    [] n = "Content-Length" -> "content-length"
    [] n = "Accept-Encoding" -> "accept-encoding"
    [] n = "Proxy-Authorization" -> "proxy-authorization"
    [] n = "Proxy-Authenticate" -> "proxy-authenticate"
    [] n = "Keep-Alive" -> "keep-alive"
    [] n = "Transfer-Encoding" -> "transfer-encoding"
    [] n = "TE" -> "te"
    [] n = "Trailers" -> "trailers"
    [] n = "Upgrade" -> "upgrade"
    [] n = "UPGRADE" -> "upgrade"
    [] n = "Accept" -> "accept"
    [] n = "Cookie" -> "cookie"
    [] n = "Origin" -> "origin"
    [] n = "Content-Type" -> "content-type"
    [] n = "X-Proxy-Auth" -> "x-proxy-auth"
    [] n = "X-Forwarded-For" -> "x-forwarded-for"
    [] n = "Set-Cookie" -> "set-cookie"
    [] n = "Access-Control-Allow-Origin" -> "access-control-allow-origin"
    [] n = "Access-Control-Allow-Methods" -> "access-control-allow-methods"
    [] n = "Access-Control-Allow-Headers" -> "access-control-allow-headers"
    [] OTHER -> n

\* req.headers / upstreamResp.headers: the headers on the wire, keyed by the
\* lower-case name (no two wire names of a message differ only in case)
LowerKeyed(wire) ==
  [k \in {LowerName(n) : n \in DOMAIN wire} |->
     wire[CHOOSE n \in DOMAIN wire : LowerName(n) = k]]

\* h[name] || ''
Get(h, k) == IF k \in DOMAIN h THEN h[k] ELSE << >>

\* res.setHeader(name, value)
setHeader(h, name, value) ==
  [k \in DOMAIN h \cup {LowerName(name)} |->
     IF k = LowerName(name) THEN value ELSE h[k]]

\* The CORS middleware's headers
ALLOW_METHODS == << "G", "E", "T", ",", "P", "O", "S", "T", ",", "P", "U", "T", ",", "P", "A", "T", "C", "H", ",", "D", "E", "L", "E", "T", "E", ",", "O", "P", "T", "I", "O", "N", "S" >>
ALLOW_HEADERS == << "C", "o", "n", "t", "e", "n", "t", "-", "T", "y", "p", "e", ",", "A", "u", "t", "h", "o", "r", "i", "z", "a", "t", "i", "o", "n", ",", "x", "-", "p", "r", "o", "x", "y", "-", "a", "u", "t", "h" >>

corsHeaders(req) ==
  LET origin == Get(LowerKeyed(req.wire), "origin")
      h0 == IF origin # << >> /\ ALLOWED_ORIGINS # {} /\ origin \in ALLOWED_ORIGINS
            THEN setHeader(NoHeaders, "Access-Control-Allow-Origin", origin)
            ELSE IF ALLOWED_ORIGINS = {}
            THEN setHeader(NoHeaders, "Access-Control-Allow-Origin", << "<star>" >>)
            ELSE NoHeaders
  IN  setHeader(setHeader(h0, "Access-Control-Allow-Methods", ALLOW_METHODS),
                "Access-Control-Allow-Headers", ALLOW_HEADERS)

\* ------------------------------------------------------------ body parsers
\* JSON.parse on the request bodies of the model (a double quote is written '
\* in these texts); strict mode accepts only objects and arrays
JsonParse(raw) ==
  CASE raw = "{'token':'abc'}" -> [ok |-> TRUE, kind |-> "object", token |-> TOKEN_ABC, length |-> 0]
    [] raw = "{'token':'bad'}" -> [ok |-> TRUE, kind |-> "object", token |-> TOKEN_BAD, length |-> 0]
    [] raw = "{'a':1}" -> [ok |-> TRUE, kind |-> "object", token |-> << >>, length |-> 0]
    [] raw = "[1,2]" -> [ok |-> TRUE, kind |-> "array", token |-> << >>, length |-> 2]
    [] OTHER -> [ok |-> FALSE, kind |-> "error", token |-> << >>, length |-> 0]

EmptyBody == [ok |-> TRUE, kind |-> "object", token |-> << >>, length |-> 0]

\* express.json, then express.raw({type: '*/*'}): req.body, or the parse error
\* that ends the request before any other middleware runs.  length is 0 where
\* req.body.length is undefined.
bodyParsers(req) ==
  LET ct == Get(LowerKeyed(req.wire), "content-type")
  IN  IF req.raw = "" THEN EmptyBody
      ELSE IF ct = CT_JSON THEN JsonParse(req.raw)
      ELSE IF ct # << >>
      THEN [ok |-> TRUE, kind |-> "buffer", token |-> << >>, length |-> 1]
      ELSE EmptyBody

\* ------------------------------------------------------------ rate limiter
\* max: PROXY_RATE_LIMIT
proxyLimiterMaxMutant == PROXY_RATE_LIMIT + 1

proxyLimiterMax == PROXY_RATE_LIMIT

\* the limiter's default key generator
keyGenerator(req) == req.ip

\* The store's increment: a key with no window, or whose window has ended,
\* starts a window at the current time; the hit is counted in the window.
increment(store, key, t) ==
  IF store[key].resetTime > t
  THEN [store EXCEPT ![key].totalHits = @ + 1]
  ELSE [store EXCEPT ![key] = [totalHits |-> 1, resetTime |-> t + windowMs]]

\* the middleware's verdict after the hit is counted
limited(store, key) == store[key].totalHits > proxyLimiterMax

\* ---------------------------------------------------------- node selection
pickNodeRoundRobinMutant(c) ==
  [idx |-> (c % NodeCount) + 1, counter |-> c, picked |-> << (c % NodeCount) + 1 >>,
   threw |-> FALSE]

\* const idx = (rrCounter++) % PROXY_NODES.length; return PROXY_NODES[idx]
\* (idx is the 1-based position in PROXY_NODES; picked is the history entry)
pickNodeRoundRobin(c) ==
  [idx |-> (c % NodeCount) + 1, counter |-> c + 1, picked |-> << (c % NodeCount) + 1 >>,
   threw |-> FALSE]

\* PROXY_NODES.indexOf(s) + 1: 0 when s is no node
indexOfNode(s) ==
  IF \E i \in 1..NodeCount : PROXY_NODES[i] = s
  THEN CHOOSE i \in 1..NodeCount : PROXY_NODES[i] = s
  ELSE 0

COOKIE_PREFIX == << "p", "r", "o", "x", "y", "-", "n", "o", "d", "e", "=" >>

\* the first cookie of the request that starts with proxy-node=, << >> when none
findNodeCookie(req) ==
  LET cs == Split(Get(LowerKeyed(req.wire), "cookie"), ";")
      hit == {i \in 1..Len(cs) : startsWith(trim(cs[i]), COOKIE_PREFIX)}
  IN  IF hit = {} THEN << >>
      ELSE trim(cs[CHOOSE i \in hit : \A j \in hit : i <= j])

\* the identity of sticky selection:
\* (req.ip || req.headers['x-forwarded-for'] || '').split(',')[0] || ''
stickyIp(req) ==
  SplitFirst(IF req.ip # << >> THEN req.ip
             ELSE Get(LowerKeyed(req.wire), "x-forwarded-for"), ",")

\* What pickNodeStickyByIp decides from the request alone: the node of the
\* identity's hash, the node of the cookie, the URIError of decodeURIComponent,
\* or the fall-back to round robin.
stickyChoice(req) ==
  LET ip == stickyIp(req)
      cookie == findNodeCookie(req)
      parts == Split(cookie, "=")
      val == IF Len(parts) >= 2 THEN parts[2] ELSE << >>
      dec == decodeURIComponent(val)
      idx == indexOfNode(dec.str)
  IN  IF ip # << >>
      THEN [kind |-> "hash", idx |-> WordMod(hashStringToInt(ip), NodeCount) + 1]
      ELSE IF cookie # << >> /\ ~dec.ok THEN [kind |-> "throw", idx |-> 0]
      ELSE IF cookie # << >> /\ idx > 0 THEN [kind |-> "cookie", idx |-> idx]
      ELSE [kind |-> "fallback", idx |-> 0]

\* stickyChoice and stickyIp on the requests of the model, computed once
stickyChoiceOf == [req \in AllRequests |-> stickyChoice(req)]
stickyIpOf == [req \in AllRequests |-> stickyIp(req)]

pickNodeStickyByIpMutant(req, c) == pickNodeRoundRobin(c)

stickyPickMutant(ch, c) ==
  IF ch.kind = "fallback" THEN pickNodeRoundRobin(c)
  ELSE [idx |-> ch.idx, counter |-> c + 1, picked |-> << >>, threw |-> ch.kind = "throw"]

\* pickNodeStickyByIp once the request's part ch is known
stickyPick(ch, c) ==
  IF ch.kind = "fallback" THEN pickNodeRoundRobin(c)
  ELSE [idx |-> ch.idx, counter |-> c, picked |-> << >>, threw |-> ch.kind = "throw"]

pickNodeStickyByIp(req, c) == stickyPick(stickyChoiceOf[req], c)

selectUpstream(req, c) ==
  IF ROTATION_MODE = "sticky_by_ip" THEN pickNodeStickyByIp(req, c)
  ELSE pickNodeRoundRobin(c)

\* ------------------------------------------------------------- the handler
NoFetch ==
  [issued |-> FALSE, node |-> 0, url |-> << >>, headers |-> NoHeaders,
   method |-> "", body |-> ""]

RequestDropped == {"host", "connection", "content-length", "accept-encoding"}

copyRequestHeadersMutant(headers) ==
  setHeader([k \in {n \in DOMAIN headers : LowerName(n) \notin RequestDropped} |-> headers[k]],
            "via", Get(headers, "via") \o << "1", ".", "1", " ", "g", "w" >>)

\* outgoingHeaders: the loop over Object.entries(req.headers)
copyRequestHeaders(headers) ==
  [k \in {n \in DOMAIN headers : LowerName(n) \notin RequestDropped} |-> headers[k]]

\* outgoingHeaders, with the token put under x-proxy-auth
outgoingHeaders(req) ==
  LET headers == LowerKeyed(req.wire)
      tokenFromHeader == Get(headers, "x-proxy-auth")
      tokenFromQuery == req.token
      out == copyRequestHeaders(headers)
  IN  IF tokenFromHeader # << >> THEN setHeader(out, "x-proxy-auth", tokenFromHeader)
      ELSE IF tokenFromQuery # << >> THEN setHeader(out, "x-proxy-auth", tokenFromQuery)
      ELSE out

\* upstreamBase.replace(/\/$/, '')
stripTrailingSlash(b) ==
  IF Len(b) > 0 /\ b[Len(b)] = "/" THEN SubSeq(b, 1, Len(b) - 1) ELSE b

upstreamUrlMutant(base, target) ==
  base \o << "/", "p", "r", "o", "x", "y", "?", "u", "r", "l", "=" >> \o encodeURIComponent(target)

upstreamUrl(base, target) ==
  stripTrailingSlash(base) \o << "/", "p", "r", "o", "x", "y", "?", "u", "r", "l", "=" >> \o encodeURIComponent(target)

COOKIE_FLAGS == << ";", " ", "H", "t", "t", "p", "O", "n", "l", "y", ";", " ", "S", "e", "c", "u", "r", "e", ";", " ", "P", "a", "t", "h", "=", "/", ";", " ", "S", "a", "m", "e", "S", "i", "t", "e", "=", "L", "a", "x" >>

setCookieValue(base) == COOKIE_PREFIX \o encodeURIComponent(base) \o COOKIE_FLAGS

\* fetchOptions.body: "" is undefined
\* String(body), what node-fetch sends for a body that is neither a string
\* nor a Buffer nor a stream: the elements of a parsed JSON array, joined by
\* commas
StringOfArray(raw) ==
  CASE raw = "[1,2]" -> "1,2"
    [] OTHER -> ""

fetchBody(req) ==
  IF req.method \in {"GET", "HEAD"} THEN ""
  ELSE IF bodyParsers(req).length > 0
  THEN IF bodyParsers(req).kind = "array" THEN StringOfArray(req.raw) ELSE req.raw
  ELSE ""

\* The parts of the handler that depend on the request alone, computed once
\* for the requests of the model.
requestView(req) ==
  [bodyOk |-> bodyParsers(req).ok,
   bodyToken |-> bodyParsers(req).token,
   cors |-> corsHeaders(req),
   tokenFromHeader |-> Get(LowerKeyed(req.wire), "x-proxy-auth"),
   out |-> outgoingHeaders(req),
   body |-> fetchBody(req),
   url |-> [i \in 1..NodeCount |-> upstreamUrl(PROXY_NODES[i], req.url)]]

viewOf == [req \in AllRequests |-> requestView(req)]

setCookieOf == [i \in 1..NodeCount |-> setCookieValue(PROXY_NODES[i])]

\* what the routes send
SENT_UNAUTHORIZED == "Unauthorized: invalid or missing token"
SENT_BAD_URL == "Missing/invalid url parameter"
SENT_BAD_GATEWAY == "Bad Gateway"
SENT_NO_UPSTREAM == "No upstream nodes available"
SENT_NOT_FOUND == "Not Found"
SENT_TOKEN_REQUIRED == "token required"
SENT_INVALID_TOKEN == "invalid token"
SENT_OK == "OK"
SENT_HEALTH == "{ok, nodes, mode}"
\* the body of res.sendStatus(204), and of a response not sent yet
SENT_NOTHING == ""
\* the error page of the body parsers and the message of the rate limiter
SENT_PARSE_ERROR == "<body parser error>"
SENT_LIMITED == "<rate limit message>"
\* the bytes of upstreamResp.buffer()
SENT_BUFFER == "<upstream body>"

Outcome(status, headers, store, c, picked, fetch, body) ==
  [status |-> status, headers |-> headers, store |-> store, counter |-> c, body |-> body,
   picked |-> picked, fetch |-> fetch]

\* The body of the async handler up to await fetch: the outcome is a terminal
\* status, or status 0 and the fetch that was issued.  A throw of
\* selectUpstream is caught by the handler's catch block.
tokenOfMutant(tokenFromHeader, tokenFromQuery) ==
  IF tokenFromQuery # << >> THEN tokenFromQuery ELSE tokenFromHeader

\* const token = tokenFromHeader || tokenFromQuery
tokenOf(tokenFromHeader, tokenFromQuery) ==
  IF tokenFromHeader # << >> THEN tokenFromHeader ELSE tokenFromQuery

\* (v is the request's view, sel what selectUpstream returns when it is
\* reached)
handlerSteps(req, res, store, c, v, sel) ==
  LET tokenFromHeader == v.tokenFromHeader
      tokenFromQuery == req.token
      token == tokenOf(tokenFromHeader, tokenFromQuery)
      target == req.url
  IN  IF ~isValidToken(token) THEN Outcome(401, res, store, c, << >>, NoFetch, SENT_UNAUTHORIZED)
      ELSE IF target = << >> \/ ~validUrl[target]
      THEN Outcome(400, res, store, c, << >>, NoFetch, SENT_BAD_URL)
      ELSE IF sel.threw THEN Outcome(502, res, store, sel.counter, sel.picked, NoFetch,
                                   SENT_BAD_GATEWAY)
      ELSE IF sel.idx \notin 1..NodeCount
      THEN Outcome(500, res, store, sel.counter, sel.picked, NoFetch, SENT_NO_UPSTREAM)
      ELSE Outcome(0,
                   IF ROTATION_MODE = "sticky_by_ip"
                   THEN setHeader(res, "Set-Cookie", setCookieOf[sel.idx])
                   ELSE res,
                   store, sel.counter, sel.picked,
                   [issued |-> TRUE, node |-> sel.idx, url |-> v.url[sel.idx],
                    headers |-> v.out, method |-> req.method, body |-> v.body],
                   SENT_NOTHING)

proxyHandler(req, res, store, c) ==
  handlerSteps(req, res, store, c, viewOf[req], selectUpstream(req, c))

\* app.all('/proxy', proxyLimiter, handler) behind the body parsers and the
\* CORS middleware
routeStepsMutant(req, store, c, v, key, counted) ==
  IF ~v.bodyOk THEN Outcome(400, NoHeaders, store, c, << >>, NoFetch, SENT_PARSE_ERROR)
  ELSE IF req.method = "OPTIONS" THEN Outcome(204, v.cors, store, c, << >>, NoFetch, SENT_NOTHING)
  ELSE IF ~isValidToken(IF v.tokenFromHeader # << >> THEN v.tokenFromHeader ELSE req.token)
  THEN Outcome(401, v.cors, store, c, << >>, NoFetch, SENT_UNAUTHORIZED)
  ELSE IF limited(counted, key) THEN Outcome(429, v.cors, counted, c, << >>, NoFetch, SENT_LIMITED)
  ELSE proxyHandler(req, v.cors, counted, c)

\* (v is the request's view, key the limiter's key, counted the store after
\* the limiter counted the request)
routeSteps(req, store, c, v, key, counted) ==
  IF ~v.bodyOk THEN Outcome(400, NoHeaders, store, c, << >>, NoFetch, SENT_PARSE_ERROR)
  ELSE IF req.method = "OPTIONS" THEN Outcome(204, v.cors, store, c, << >>, NoFetch, SENT_NOTHING)
  ELSE IF limited(counted, key) THEN Outcome(429, v.cors, counted, c, << >>, NoFetch, SENT_LIMITED)
  ELSE proxyHandler(req, v.cors, counted, c)

proxyRoute(req, store, c, t) ==
  routeSteps(req, store, c, viewOf[req], keyGenerator(req),
             increment(store, keyGenerator(req), t))

\* the response headers after the upstream's are copied
ResponseDropped ==
  {"connection", "transfer-encoding", "keep-alive", "proxy-authorization",
   "proxy-authenticate", "te", "trailers", "upgrade"}

relayHeadersMutant(res, up) ==
  [k \in DOMAIN res \cup {n \in DOMAIN up : LowerName(n) \notin (ResponseDropped \ {"upgrade"})} |->
     IF k \in DOMAIN up THEN up[k] ELSE res[k]]

relayHeaders(res, up) ==
  [k \in DOMAIN res \cup {n \in DOMAIN up : LowerName(n) \notin ResponseDropped} |->
     IF k \in DOMAIN up /\ LowerName(k) \notin ResponseDropped THEN up[k] ELSE res[k]]

\* app.get('/health') behind the body parsers and the CORS middleware; any
\* other method falls through to the 404 handler
healthRoute(req) ==
  LET v == viewOf[req]
  IN  IF ~v.bodyOk THEN [status |-> 400, headers |-> NoHeaders, body |-> SENT_PARSE_ERROR]
      ELSE IF req.method = "OPTIONS" THEN [status |-> 204, headers |-> v.cors, body |-> SENT_NOTHING]
      ELSE IF req.method \in {"GET", "HEAD"} THEN [status |-> 200, headers |-> v.cors, body |-> SENT_HEALTH]
      ELSE [status |-> 404, headers |-> v.cors, body |-> SENT_NOT_FOUND]

\* app.post('/validate-key')
validateKeyRoute(req) ==
  LET v == viewOf[req]
  IN  IF ~v.bodyOk THEN [status |-> 400, headers |-> NoHeaders, body |-> SENT_PARSE_ERROR]
      ELSE IF req.method = "OPTIONS" THEN [status |-> 204, headers |-> v.cors, body |-> SENT_NOTHING]
      ELSE IF req.method # "POST"
      THEN [status |-> 404, headers |-> v.cors, body |-> SENT_NOT_FOUND]
      ELSE IF v.bodyToken = << >> THEN [status |-> 400, headers |-> v.cors, body |-> SENT_TOKEN_REQUIRED]
      ELSE IF isValidToken(v.bodyToken) THEN [status |-> 200, headers |-> v.cors, body |-> SENT_OK]
      ELSE [status |-> 401, headers |-> v.cors, body |-> SENT_INVALID_TOKEN]

\* ----------------------------------------------------------------- actions
Idle == [busy |-> FALSE, headers |-> NoHeaders, node |-> 0]

Slots == 1..MaxInFlight
FreeSlots == {i \in Slots : ~inflight[i].busy}
FirstFree == CHOOSE i \in FreeSlots : \A j \in FreeSlots : i <= j

Observed(op, req, status, headers, fetch, upstream, body) ==
  [op |-> op, req |-> req, status |-> status, headers |-> headers, fetch |-> fetch,
   body |-> body,
   upstream |-> upstream]

\* One /proxy request, from the first middleware to the response or to the
\* handler's suspension at await fetch.
\* (o is the outcome of the route, ip the identity of sticky selection)
Respond(req, key, o, ip) ==
  /\ hits[key].resetTime <= now \/ hits[key].totalHits < PROXY_RATE_LIMIT + MaxOver
  /\ o.fetch.issued => FreeSlots # {}
  /\ hits' = o.store
  /\ rrCounter' = o.counter
  /\ rrLog' = rrLog \o o.picked
  /\ inflight' = IF o.fetch.issued
                 THEN [inflight EXCEPT ![FirstFree] =
                         [busy |-> TRUE, headers |-> o.headers, node |-> o.fetch.node]]
                 ELSE inflight
  /\ stickyLog' = IF o.fetch.issued /\ ROTATION_MODE = "sticky_by_ip" /\ ip # << >>
                  THEN stickyLog \cup {<< ip, o.fetch.node >>}
                  ELSE stickyLog
  /\ last' = Observed("proxy", req, o.status, o.headers, o.fetch, NoUpstream, o.body)
  /\ UNCHANGED << ROTATION_MODE, VALID_TOKENS, now, hashIn, hashOut, tokenVars, shimVars, filterVars >>

ProxyRequest(req) ==
  Respond(req, keyGenerator(req), proxyRoute(req, hits, rrCounter, now), stickyIpOf[req])

\* no fetch is issued by the step; node is the node whose answer the step handles
Served(node) == [NoFetch EXCEPT !.node = node]

\* fetch resolves and upstreamResp.buffer() resolves: the response is relayed
FetchResolve(slot, resp) ==
  /\ inflight[slot].busy
  /\ inflight' = [inflight EXCEPT ![slot] = Idle]
  /\ last' = Observed("relay", NoReq, resp.status,
                      relayHeaders(inflight[slot].headers, LowerKeyed(resp.wire)),
                      Served(inflight[slot].node), resp, SENT_BUFFER)
  /\ UNCHANGED << ROTATION_MODE, VALID_TOKENS, rrCounter, hits, now, rrLog, stickyLog,
                  hashIn, hashOut, tokenVars, shimVars, filterVars >>

\* fetch resolves, the headers and the status are copied, then
\* upstreamResp.buffer() rejects: the catch block answers 502
BufferReject(slot, resp) ==
  /\ inflight[slot].busy
  /\ inflight' = [inflight EXCEPT ![slot] = Idle]
  /\ last' = Observed("buffer_error", NoReq, 502,
                      relayHeaders(inflight[slot].headers, LowerKeyed(resp.wire)),
                      Served(inflight[slot].node), resp, SENT_BAD_GATEWAY)
  /\ UNCHANGED << ROTATION_MODE, VALID_TOKENS, rrCounter, hits, now, rrLog, stickyLog,
                  hashIn, hashOut, tokenVars, shimVars, filterVars >>

FetchRejectMutant(slot) ==
  /\ inflight[slot].busy
  /\ inflight' = inflight
  /\ last' = Observed("fetch_error", NoReq, 0, inflight[slot].headers,
                      [NoFetch EXCEPT !.issued = TRUE, !.node = inflight[slot].node],
                      NoUpstream, SENT_NOTHING)
  /\ UNCHANGED << ROTATION_MODE, VALID_TOKENS, rrCounter, hits, now, rrLog, stickyLog,
                  hashIn, hashOut, tokenVars, shimVars, filterVars >>

\* fetch rejects: the catch block answers 502
FetchReject(slot) ==
  /\ inflight[slot].busy
  /\ inflight' = [inflight EXCEPT ![slot] = Idle]
  /\ last' = Observed("fetch_error", NoReq, 502, inflight[slot].headers,
                      Served(inflight[slot].node), NoUpstream, SENT_BAD_GATEWAY)
  /\ UNCHANGED << ROTATION_MODE, VALID_TOKENS, rrCounter, hits, now, rrLog, stickyLog,
                  hashIn, hashOut, tokenVars, shimVars, filterVars >>

Health(req) ==
  /\ last' = Observed("health", req, healthRoute(req).status, healthRoute(req).headers,
                      NoFetch, NoUpstream, healthRoute(req).body)
  /\ UNCHANGED << ROTATION_MODE, VALID_TOKENS, rrCounter, hits, now, inflight, rrLog,
                  stickyLog, hashIn, hashOut, tokenVars, shimVars, filterVars >>

ValidateKeyMutant(req) ==
  /\ hits[keyGenerator(req)].totalHits < PROXY_RATE_LIMIT + MaxOver
  /\ hits' = increment(hits, keyGenerator(req), now)
  /\ last' = Observed("validate-key", req, validateKeyRoute(req).status,
                      validateKeyRoute(req).headers, NoFetch, NoUpstream,
                      validateKeyRoute(req).body)
  /\ UNCHANGED << ROTATION_MODE, VALID_TOKENS, rrCounter, now, inflight, rrLog,
                  stickyLog, hashIn, hashOut, tokenVars, shimVars, filterVars >>

ValidateKey(req) ==
  /\ last' = Observed("validate-key", req, validateKeyRoute(req).status,
                      validateKeyRoute(req).headers, NoFetch, NoUpstream,
                      validateKeyRoute(req).body)
  /\ UNCHANGED << ROTATION_MODE, VALID_TOKENS, rrCounter, hits, now, inflight, rrLog,
                  stickyLog, hashIn, hashOut, tokenVars, shimVars, filterVars >>

\* half a rate-limit window passes
Tick ==
  /\ now < MaxTicks * (windowMs \div 2)
  /\ now' = now + (windowMs \div 2)
  /\ last' = Observed("tick", NoReq, 0, NoHeaders, NoFetch, NoUpstream, SENT_NOTHING)
  /\ UNCHANGED << ROTATION_MODE, VALID_TOKENS, rrCounter, hits, inflight, rrLog,
                  stickyLog, hashIn, hashOut, tokenVars, shimVars, filterVars >>

\* ---------------------------------------------------------- specifications
NoHash == [done |-> FALSE, value |-> [hi |-> 0, lo |-> 0]]
NoVerdict == [done |-> FALSE, value |-> FALSE]
NoEvent == [op |-> "init", url |-> << >>, redirected |-> FALSE, proxyUrl |-> << >>,
            headers |-> NoHeaders]

\* isValidToken is not applied
TokenIdle ==
  /\ tokenIn = << >>
  /\ tokenOut = NoVerdict

NoFiltered == [dir |-> "none", once |-> NoHeaders, twice |-> NoHeaders]

\* no header filter is applied on its own
FilterIdle ==
  /\ filterIn = NoHeaders
  /\ filterOut = NoFiltered

\* no service worker runs
ShimIdle ==
  /\ shim = "none"
  /\ PROXY_HOST = << >>
  /\ PROXY_ENABLED = FALSE
  /\ AUTH_TOKEN = << >>
  /\ sentToken = << >>
  /\ sentHost = << >>
  /\ sentSwitch = "none"
  /\ shimLast = NoEvent

InitGateway ==
  /\ VALID_TOKENS = {TOKEN_ABC}
  /\ rrCounter = 0
  /\ hits = [k \in Keys |-> [totalHits |-> 0, resetTime |-> 0]]
  /\ now = 0
  /\ inflight = [i \in Slots |-> Idle]
  /\ last = Observed("init", NoReq, 0, NoHeaders, NoFetch, NoUpstream, SENT_NOTHING)
  /\ rrLog = << >>
  /\ stickyLog = {}
  /\ hashIn = << >>
  /\ hashOut = NoHash
  /\ TokenIdle
  /\ ShimIdle
  /\ FilterIdle

\* Spec: rate limiting and authorization, two peers, the clock running
Init ==
  /\ ROTATION_MODE \in {"round_robin", "sticky_by_ip"}
  /\ InitGateway

Next ==
  \/ \E req \in ProxyRequests : ProxyRequest(req)
  \/ \E slot \in Slots, resp \in UpstreamResponses : FetchResolve(slot, resp)
  \/ \E slot \in Slots : FetchReject(slot)
  \/ Tick

Spec == Init /\ [][Next]_vars

\* SpecLive: Spec with time passing.  The upstream is free never to answer:
\* neither the resolution nor the rejection of fetch is fair, and fetchOptions
\* sets no timeout that would end the wait.
SpecLive == Init /\ [][Next]_vars /\ WF_vars(Tick)

\* SpecValidate: the checks of one request, one peer
NextValidate ==
  \/ \E req \in ValidateRequests : ProxyRequest(req)
  \/ \E slot \in Slots, resp \in UpstreamResponses : FetchResolve(slot, resp)
  \/ \E slot \in Slots : FetchReject(slot)

SpecValidate == Init /\ [][NextValidate]_vars

\* SpecSelect: node selection in both rotation modes, every route
NextSelect ==
  \/ \E req \in SelectRequests : ProxyRequest(req)
  \/ \E slot \in Slots, resp \in UpstreamResponses : FetchResolve(slot, resp)
  \/ \E slot \in Slots : FetchReject(slot)
  \/ \E req \in HealthRequests : Health(req)
  \/ \E req \in ValidateKeyRequests : ValidateKey(req)

SpecSelect == Init /\ [][NextSelect]_vars

\* SpecHeaders: the headers forwarded and relayed
NextHeaders ==
  \/ \E req \in HeaderRequests : ProxyRequest(req)
  \/ \E slot \in Slots, resp \in HeaderResponses : FetchResolve(slot, resp)
  \/ \E slot \in Slots, resp \in HeaderResponses : BufferReject(slot, resp)
  \/ \E slot \in Slots : FetchReject(slot)

SpecHeaders == Init /\ [][NextHeaders]_vars

\* SpecHash: hashStringToInt applied to every string over HashAlphabet of
\* length at most MaxLen
HashAlphabet == {"1", "5", ".", "a", ":"}
HashInputs == UNION {[1..n -> HashAlphabet] : n \in 0..MaxLen}

ApplyHash ==
  /\ ~hashOut.done
  /\ hashOut' = [done |-> TRUE, value |-> hashStringToInt(hashIn)]
  /\ UNCHANGED << ROTATION_MODE, VALID_TOKENS, rrCounter, hits, now, inflight, last,
                  rrLog, stickyLog, hashIn, tokenVars, shimVars, filterVars >>

InitHash ==
  /\ ROTATION_MODE = "sticky_by_ip"
  /\ VALID_TOKENS = {TOKEN_ABC}
  /\ rrCounter = 0
  /\ hits = [k \in Keys |-> [totalHits |-> 0, resetTime |-> 0]]
  /\ now = 0
  /\ inflight = [i \in Slots |-> Idle]
  /\ last = Observed("init", NoReq, 0, NoHeaders, NoFetch, NoUpstream, SENT_NOTHING)
  /\ rrLog = << >>
  /\ stickyLog = {}
  /\ hashIn \in HashInputs
  /\ hashOut = NoHash
  /\ TokenIdle
  /\ ShimIdle
  /\ FilterIdle

NextHash == ApplyHash

SpecHash == InitHash /\ [][NextHash]_vars

\* SpecToken: isValidToken applied to every string over TokenAlphabet of
\* length at most MaxLen, under every configuration of VALID_TOKENS (which
\* holds no empty string: line 23 filters them out)
TokenAlphabet == {"a", "b", "c", "d"}
TokenInputs == UNION {[1..n -> TokenAlphabet] : n \in 0..MaxLen}
TokenConfigs == SUBSET {TOKEN_ABC, TOKEN_BAD, << "a" >>}

ApplyToken ==
  /\ ~tokenOut.done
  /\ tokenOut' = [done |-> TRUE, value |-> isValidToken(tokenIn)]
  /\ UNCHANGED << ROTATION_MODE, VALID_TOKENS, rrCounter, hits, now, inflight, last,
                  rrLog, stickyLog, hashIn, hashOut, tokenIn, shimVars, filterVars >>

InitToken ==
  /\ ROTATION_MODE = "round_robin"
  /\ VALID_TOKENS \in TokenConfigs
  /\ rrCounter = 0
  /\ hits = [k \in Keys |-> [totalHits |-> 0, resetTime |-> 0]]
  /\ now = 0
  /\ inflight = [i \in Slots |-> Idle]
  /\ last = Observed("init", NoReq, 0, NoHeaders, NoFetch, NoUpstream, SENT_NOTHING)
  /\ rrLog = << >>
  /\ stickyLog = {}
  /\ hashIn = << >>
  /\ hashOut = NoHash
  /\ tokenIn \in TokenInputs
  /\ tokenOut = NoVerdict
  /\ ShimIdle
  /\ FilterIdle

NextToken == ApplyToken

SpecToken == InitToken /\ [][NextToken]_vars

\* ------------------------------------------------- the service worker shims
\* Three variants of the client shim: src/sw-proxy.js, src/unnamed/part_001
\* and src/unnamed/part_000.  null, undefined and '' are the empty sequence:
\* the shims only test these values for truthiness.
SW_PROXY == "sw-proxy.js"
PART_001 == "part_001"
PART_000 == "part_000"
Shims == {SW_PROXY, PART_001, PART_000}

\* self.location.origin, and the PROXY_HOST the variants part_000 and part_001
\* start with
SELF_ORIGIN == << "h", "t", "t", "p", "s", ":", "/", "/", "s", ".", "i", "o" >>
DEFAULT_HOST == << "h", "t", "t", "p", "s", ":", "/", "/", "w", "e", "b", "s", "i", "t", "e", "-", "v", "p", "n", ".", "o", "n", "r", "e", "n", "d", "e", "r", ".", "c", "o", "m" >>

\* the gateway bases a page sends with SET_PROXY_HOST: plain, with a trailing
\* slash, with its host in capitals, and none
HOST_GW == << "h", "t", "t", "p", "s", ":", "/", "/", "g", ".", "i", "o" >>
HOST_GW_SLASH == << "h", "t", "t", "p", "s", ":", "/", "/", "g", ".", "i", "o", "/" >>
HOST_GW_CAPS == << "h", "t", "t", "p", "s", ":", "/", "/", "G", ".", "I", "O" >>
ShimHosts == {HOST_GW, HOST_GW_SLASH, HOST_GW_CAPS, << >>}

\* request.url of the intercepted requests (as the browser serializes it): to
\* the site itself, to another site, to the gateways, and a data: URL
R_SITE == << "h", "t", "t", "p", "s", ":", "/", "/", "s", ".", "i", "o", "/", "a", "p", "p", ".", "j", "s" >>
R_EXT == << "h", "t", "t", "p", "s", ":", "/", "/", "a", ".", "i", "o", "/" >>
R_GW == << "h", "t", "t", "p", "s", ":", "/", "/", "g", ".", "i", "o", "/", "h", "e", "a", "l", "t", "h" >>
R_DEFAULT == << "h", "t", "t", "p", "s", ":", "/", "/", "w", "e", "b", "s", "i", "t", "e", "-", "v", "p", "n", ".", "o", "n", "r", "e", "n", "d", "e", "r", ".", "c", "o", "m", "/", "h", "e", "a", "l", "t", "h" >>
R_DATA == << "d", "a", "t", "a", ":", ",", "h", "i" >>
ShimUrls == {R_SITE, R_EXT, R_GW, R_DEFAULT, R_DATA}

ShimRequests ==
  { [url |-> u, method |-> "GET", headers |-> h] :
      u \in ShimUrls, h \in {NoHeaders, "accept" :> V_HTML} }

Messages ==
  { [type |-> "SET_PROXY_HOST", proxyHost |-> h, token |-> << >>] : h \in ShimHosts }
  \cup { [type |-> "SET_AUTH_TOKEN", proxyHost |-> << >>, token |-> t] :
           t \in {TOKEN_ABC, << >>} }
  \cup { [type |-> ty, proxyHost |-> << >>, token |-> << >>] :
           ty \in {"ENABLE_PROXY", "DISABLE_PROXY"} }

\* new URL(u).origin: scheme://host[:port] in lower case without the default
\* port for http and https, "null" for a scheme without an origin
DefaultPort(scheme) == IF scheme = << "h", "t", "t", "p", "s" >> THEN << ":", "4", "4", "3" >> ELSE << ":", "8", "0" >>

StripPort(scheme, hostport) ==
  LET p == DefaultPort(scheme)
      n == Len(hostport) - Len(p)
  IN  IF n > 0 /\ SubSeq(hostport, n + 1, Len(hostport)) = p
      THEN SubSeq(hostport, 1, n)
      ELSE hostport

OriginParts(scheme, rest) ==
  IF scheme \in {<< "h", "t", "t", "p" >>, << "h", "t", "t", "p", "s" >>}
  THEN scheme \o << ":", "/", "/" >> \o StripPort(scheme, toLowerCase(HostOf(rest)))
  ELSE << "n", "u", "l", "l" >>

Origin(u) ==
  IF ~ParseUrl(u).ok THEN [ok |-> FALSE, origin |-> << >>, protocol |-> << >>]
  ELSE [ok |-> TRUE,
        origin |-> OriginParts(toLowerCase(SubSeq(u, 1, IndexOfChar(u, ":") - 1)),
                               SubSeq(u, IndexOfChar(u, ":") + 1, Len(u))),
        protocol |-> ParseUrl(u).protocol]

\* Origin and encodeURIComponent on the URLs of the model, computed once
originOf == [u \in ShimUrls \cup ShimHosts \cup {DEFAULT_HOST} |-> Origin(u)]
encodedOf == [u \in ShimUrls |-> encodeURIComponent(u)]

\* /^https?:$/.test(url.protocol)
IsHttpProtocol(protocol) == protocol \in {<< "h", "t", "t", "p", ":" >>, << "h", "t", "t", "p", "s", ":" >>}

\* the event is left to the network
PassThrough(request) ==
  [op |-> "fetch", url |-> request.url, redirected |-> FALSE, proxyUrl |-> << >>,
   headers |-> NoHeaders]

\* event.respondWith(fetch(proxyUrl, {headers}))
Redirect(request, proxyUrl, headers) ==
  [op |-> "fetch", url |-> request.url, redirected |-> TRUE, proxyUrl |-> proxyUrl,
   headers |-> headers]

\* the header lists the variants skip when they copy the request's headers
Part000Dropped ==
  {"connection", "proxy-authorization", "proxy-authenticate", "keep-alive",
   "transfer-encoding", "te", "trailers", "upgrade"}
Part001Dropped ==
  {"connection", "proxy-authorization", "keep-alive", "transfer-encoding", "te",
   "trailers", "upgrade"}

copyShimHeaders(headers, dropped) ==
  [k \in {n \in DOMAIN headers : LowerName(n) \notin dropped} |-> headers[k]]

\* sw-proxy.js: the fetch listener
swProxyFetch(request) ==
  IF ~PROXY_ENABLED \/ PROXY_HOST = << >> THEN PassThrough(request)
  ELSE IF startsWith(request.url, PROXY_HOST) THEN PassThrough(request)
  ELSE Redirect(request,
                PROXY_HOST \o << "/", "p", "r", "o", "x", "y", "?", "u", "r", "l", "=" >> \o encodedOf[request.url],
                setHeader(request.headers, "x-proxy-auth", AUTH_TOKEN))

\* part_001: shouldProxy, given the origins of the request and of PROXY_HOST
shouldProxy(url, host) ==
  IF ~PROXY_ENABLED THEN FALSE
  ELSE IF ~url.ok THEN FALSE
  ELSE IF url.origin = SELF_ORIGIN THEN FALSE
  ELSE IF ~IsHttpProtocol(url.protocol) THEN FALSE
  ELSE IF ~host.ok THEN FALSE
  ELSE IF url.origin = host.origin THEN FALSE
  ELSE TRUE

\* part_001: the fetch listener
part001Fetch(request) ==
  IF ~shouldProxy(originOf[request.url], originOf[PROXY_HOST]) THEN PassThrough(request)
  ELSE Redirect(request,
                stripTrailingSlash(PROXY_HOST) \o << "/", "p", "r", "o", "x", "y", "?", "u", "r", "l", "=" >> \o encodedOf[request.url],
                IF AUTH_TOKEN # << >>
                THEN setHeader(copyShimHeaders(request.headers, Part001Dropped),
                               "x-proxy-auth", AUTH_TOKEN)
                ELSE copyShimHeaders(request.headers, Part001Dropped))

\* part_000: shouldProxyRequest, given the origin of the request
shouldProxyRequest(url) ==
  IF ~url.ok THEN FALSE
  ELSE IF url.origin = SELF_ORIGIN THEN FALSE
  ELSE IF ~IsHttpProtocol(url.protocol) THEN FALSE
  ELSE PROXY_ENABLED

\* part_000: the fetch listener
part000Fetch(request) ==
  IF ~shouldProxyRequest(originOf[request.url]) THEN PassThrough(request)
  ELSE Redirect(request,
                stripTrailingSlash(PROXY_HOST) \o << "/", "p", "r", "o", "x", "y", "?", "u", "r", "l", "=" >> \o encodedOf[request.url],
                copyShimHeaders(request.headers, Part000Dropped))

\* the message listeners
swProxyMessageMutant(msg) ==
  /\ PROXY_HOST' = IF msg.type = "SET_PROXY_HOST" THEN msg.proxyHost ELSE PROXY_HOST
  /\ AUTH_TOKEN' = IF msg.type = "SET_AUTH_TOKEN" THEN msg.token ELSE AUTH_TOKEN
  /\ PROXY_ENABLED' = IF msg.type \in {"ENABLE_PROXY", "SET_PROXY_HOST"} THEN TRUE
                      ELSE IF msg.type = "DISABLE_PROXY" THEN FALSE
                      ELSE PROXY_ENABLED

\* sw-proxy.js: four independent tests; a message without the field sets
\* undefined
swProxyMessage(msg) ==
  /\ PROXY_HOST' = IF msg.type = "SET_PROXY_HOST" THEN msg.proxyHost ELSE PROXY_HOST
  /\ AUTH_TOKEN' = IF msg.type = "SET_AUTH_TOKEN" THEN msg.token ELSE AUTH_TOKEN
  /\ PROXY_ENABLED' = IF msg.type = "ENABLE_PROXY" THEN TRUE
                      ELSE IF msg.type = "DISABLE_PROXY" THEN FALSE
                      ELSE PROXY_ENABLED

\* part_001: a chain of tests; SET_PROXY_HOST needs a truthy host
part001Message(msg) ==
  /\ PROXY_HOST' = IF msg.type = "SET_PROXY_HOST" /\ msg.proxyHost # << >>
                   THEN msg.proxyHost ELSE PROXY_HOST
  /\ PROXY_ENABLED' = IF msg.type = "SET_PROXY_HOST" /\ msg.proxyHost # << >>
                      THEN PROXY_ENABLED
                      ELSE IF msg.type = "ENABLE_PROXY" THEN TRUE
                      ELSE IF msg.type = "DISABLE_PROXY" THEN FALSE
                      ELSE PROXY_ENABLED
  /\ AUTH_TOKEN' = IF msg.type = "SET_AUTH_TOKEN" THEN msg.token ELSE AUTH_TOKEN

\* part_000: no SET_AUTH_TOKEN branch and no token variable
part000Message(msg) ==
  /\ PROXY_HOST' = IF msg.type = "SET_PROXY_HOST" /\ msg.proxyHost # << >>
                   THEN msg.proxyHost ELSE PROXY_HOST
  /\ PROXY_ENABLED' = IF msg.type = "SET_PROXY_HOST" /\ msg.proxyHost # << >>
                      THEN PROXY_ENABLED
                      ELSE IF msg.type = "ENABLE_PROXY" THEN TRUE
                      ELSE IF msg.type = "DISABLE_PROXY" THEN FALSE
                      ELSE PROXY_ENABLED
  /\ AUTH_TOKEN' = AUTH_TOKEN

GatewayUnchanged ==
  UNCHANGED << ROTATION_MODE, VALID_TOKENS, rrCounter, hits, now, inflight, last,
               rrLog, stickyLog, hashIn, hashOut, tokenVars, filterVars >>

\* the page posts a message to the service worker
Message(msg) ==
  /\ CASE shim = SW_PROXY -> swProxyMessage(msg)
       [] shim = PART_001 -> part001Message(msg)
       [] shim = PART_000 -> part000Message(msg)
  /\ sentToken' = IF msg.type = "SET_AUTH_TOKEN" THEN msg.token ELSE sentToken
  /\ sentHost' = IF msg.type = "SET_PROXY_HOST" THEN msg.proxyHost ELSE sentHost
  /\ sentSwitch' = IF msg.type \in {"ENABLE_PROXY", "DISABLE_PROXY"} THEN msg.type
                   ELSE sentSwitch
  /\ shimLast' = [NoEvent EXCEPT !.op = msg.type]
  /\ shim' = shim
  /\ GatewayUnchanged

\* the page issues a request and the service worker gets its fetch event
FetchEvent(request) ==
  /\ shimLast' = CASE shim = SW_PROXY -> swProxyFetch(request)
                   [] shim = PART_001 -> part001Fetch(request)
                   [] shim = PART_000 -> part000Fetch(request)
  /\ UNCHANGED << shim, PROXY_HOST, PROXY_ENABLED, AUTH_TOKEN, sentToken, sentHost,
                  sentSwitch >>
  /\ GatewayUnchanged

\* SpecShim: each variant from its initial state, under every sequence of
\* messages and intercepted requests
InitShim ==
  /\ ROTATION_MODE = "round_robin"
  /\ VALID_TOKENS = {TOKEN_ABC}
  /\ rrCounter = 0
  /\ hits = [k \in Keys |-> [totalHits |-> 0, resetTime |-> 0]]
  /\ now = 0
  /\ inflight = [i \in Slots |-> Idle]
  /\ last = Observed("init", NoReq, 0, NoHeaders, NoFetch, NoUpstream, SENT_NOTHING)
  /\ rrLog = << >>
  /\ stickyLog = {}
  /\ hashIn = << >>
  /\ hashOut = NoHash
  /\ TokenIdle
  /\ shim \in Shims
  /\ PROXY_HOST = IF shim = SW_PROXY THEN << >> ELSE DEFAULT_HOST
  /\ PROXY_ENABLED = (shim = PART_000)
  /\ AUTH_TOKEN = << >>
  /\ sentToken = << >>
  /\ sentHost = << >>
  /\ sentSwitch = "none"
  /\ shimLast = NoEvent
  /\ FilterIdle

NextShim ==
  \/ \E msg \in Messages : Message(msg)
  \/ \E request \in ShimRequests : FetchEvent(request)

SpecShim == InitShim /\ [][NextShim]_vars

\* SpecBody: the request body forwarded to the upstream
NextBody ==
  \/ \E req \in BodyRequests : ProxyRequest(req)
  \/ \E slot \in Slots, resp \in UpstreamResponses : FetchResolve(slot, resp)
  \/ \E slot \in Slots : FetchReject(slot)

SpecBody == Init /\ [][NextBody]_vars

\* SpecFilter: the two header filters applied to every header collection over
\* FilterNames, once and then again to their own result
FilterNames ==
  {"host", "Host", "connection", "Connection", "te", "TE", "upgrade", "UPGRADE",
   "accept", "Set-Cookie", "content-length", "x-proxy-auth"}
FilterInputs == UNION {[D -> {V_SID}] : D \in SUBSET FilterNames}

\* the request direction: the loop that fills outgoingHeaders
ApplyRequestFilter ==
  /\ filterOut.dir = "none"
  /\ filterOut' = [dir |-> "request",
                   once |-> copyRequestHeaders(filterIn),
                   twice |-> copyRequestHeaders(copyRequestHeaders(filterIn))]
  /\ UNCHANGED << ROTATION_MODE, VALID_TOKENS, rrCounter, hits, now, inflight, last,
                  rrLog, stickyLog, hashIn, hashOut, tokenVars, shimVars, filterIn >>

\* the response direction: upstreamResp.headers.forEach on a response without
\* headers of its own
ApplyResponseFilter ==
  /\ filterOut.dir = "none"
  /\ filterOut' = [dir |-> "response",
                   once |-> relayHeaders(NoHeaders, filterIn),
                   twice |-> relayHeaders(NoHeaders, relayHeaders(NoHeaders, filterIn))]
  /\ UNCHANGED << ROTATION_MODE, VALID_TOKENS, rrCounter, hits, now, inflight, last,
                  rrLog, stickyLog, hashIn, hashOut, tokenVars, shimVars, filterIn >>

InitFilter ==
  /\ ROTATION_MODE = "round_robin"
  /\ VALID_TOKENS = {TOKEN_ABC}
  /\ rrCounter = 0
  /\ hits = [k \in Keys |-> [totalHits |-> 0, resetTime |-> 0]]
  /\ now = 0
  /\ inflight = [i \in Slots |-> Idle]
  /\ last = Observed("init", NoReq, 0, NoHeaders, NoFetch, NoUpstream, SENT_NOTHING)
  /\ rrLog = << >>
  /\ stickyLog = {}
  /\ hashIn = << >>
  /\ hashOut = NoHash
  /\ TokenIdle
  /\ ShimIdle
  /\ filterIn \in FilterInputs
  /\ filterOut = NoFiltered

NextFilter ==
  \/ ApplyRequestFilter
  \/ ApplyResponseFilter

SpecFilter == InitFilter /\ [][NextFilter]_vars

\* ------------------------------------------------------------------ claims
\* What the claims say of a request, read off the request itself.
Presented(req) ==
  IF "X-Proxy-Auth" \in DOMAIN req.wire THEN req.wire["X-Proxy-Auth"] ELSE req.token

BadToken(req) == Presented(req) = << >> \/ Presented(req) \notin VALID_TOKENS

HttpUrls == {URL_OK, URL_HTTP}
RejectedBodies == {"{bad"}

\* the request passes the body parsers and is no preflight
ReachesLimiter(req) == req.method # "OPTIONS" /\ req.raw \notin RejectedBodies

\* the hit count of key k after one more request at the time now
CountAfter(k) == IF hits[k].resetTime > now THEN hits[k].totalHits + 1 ELSE 1

\* C1 as stated: every /proxy request with an absent, empty or unknown token
\* is answered 401, every one with a valid token and a url that is missing or
\* no absolute http(s) URL is answered 400, and neither issues an upstream
\* request.
C1_AsStated ==
  last.op = "proxy" =>
    /\ BadToken(last.req) => last.status = 401 /\ ~last.fetch.issued
    /\ ~BadToken(last.req) /\ last.req.url \notin HttpUrls =>
         last.status = 400 /\ ~last.fetch.issued

\* C1 (amended): for every /proxy request that is no OPTIONS preflight, whose
\* body the parsers accept and which the rate limiter admits, a bad token gives
\* 401 and a valid token with a missing or non-http(s) url gives 400; these
\* requests, the preflight (204), the rejected body (400) and the rate-limited
\* request (429) issue no upstream request.
C1_Validation ==
  last.op = "proxy" =>
    /\ ReachesLimiter(last.req) /\ hits[last.req.ip].totalHits <= PROXY_RATE_LIMIT =>
         /\ BadToken(last.req) => last.status = 401
         /\ ~BadToken(last.req) /\ last.req.url \notin HttpUrls => last.status = 400
         /\ ~BadToken(last.req) /\ last.req.url \in HttpUrls => last.status = 0
    /\ ReachesLimiter(last.req) /\ hits[last.req.ip].totalHits > PROXY_RATE_LIMIT =>
         last.status = 429
    /\ last.req.raw \in RejectedBodies => last.status = 400
    /\ last.req.method = "OPTIONS" /\ last.req.raw \notin RejectedBodies => last.status = 204
    /\ last.status \in {401, 400, 429, 204} => ~last.fetch.issued
    /\ last.status = 0 <=> last.fetch.issued

C1_Witness ==
  /\ last.op = "proxy"
  /\ last.req.url = URL_FTP
  /\ ~BadToken(last.req)
  /\ hits[last.req.ip].totalHits = PROXY_RATE_LIMIT
  /\ last.status = 400
  /\ ~last.fetch.issued

\* C2 as stated: a /proxy request with a missing or invalid token is answered
\* 401 whatever the state of its client's rate window, and leaves the client's
\* window as it was.
C2_AsStated ==
  [][last'.op = "proxy" /\ ReachesLimiter(last'.req) /\ BadToken(last'.req) =>
       /\ last'.status = 401
       /\ hits'[last'.req.ip] = hits[last'.req.ip]]_vars

\* C2 (amended): on /proxy the rate limiter is consulted before the token is
\* validated: a request with a missing or invalid token is counted in its
\* client's window, and it is answered 401 while the count is within the
\* ceiling and 429 beyond it; it never issues an upstream request.
C2_LimiterFirst ==
  [][last'.op = "proxy" /\ ReachesLimiter(last'.req) /\ BadToken(last'.req) =>
       /\ hits'[last'.req.ip].totalHits = CountAfter(last'.req.ip)
       /\ last'.status = IF CountAfter(last'.req.ip) <= PROXY_RATE_LIMIT THEN 401 ELSE 429
       /\ ~last'.fetch.issued]_vars

C2_Witness ==
  /\ last.op = "proxy"
  /\ BadToken(last.req)
  /\ hits[last.req.ip].totalHits = PROXY_RATE_LIMIT + 1
  /\ last.status = 429

\* C3: per client identity, a request is counted in the identity's 60-second
\* window (a window that has ended starts anew with this request as its
\* first); the request is rejected with 429 and without an upstream request
\* exactly when its count exceeds the ceiling, so the first ceiling requests of
\* a window are admitted and the later ones rejected; the windows of the other
\* identities are untouched.
C3_RateWindow ==
  [][last'.op = "proxy" /\ ReachesLimiter(last'.req) =>
       /\ hits'[last'.req.ip].totalHits = CountAfter(last'.req.ip)
       /\ hits'[last'.req.ip].resetTime =
            IF hits[last'.req.ip].resetTime > now THEN hits[last'.req.ip].resetTime
            ELSE now + 60000
       /\ last'.status = 429 <=> CountAfter(last'.req.ip) > PROXY_RATE_LIMIT
       /\ last'.status = 429 => ~last'.fetch.issued /\ inflight' = inflight
       /\ \A k \in Keys \ {last'.req.ip} : hits'[k] = hits[k]]_vars

\* a rejection in the second window of one identity while the other identity
\* is within its ceiling
C3_Witness ==
  /\ last.op = "proxy"
  /\ last.status = 429
  /\ now >= 60000
  /\ hits[last.req.ip].resetTime = now + 60000
  /\ hits[last.req.ip].totalHits = PROXY_RATE_LIMIT + 1
  /\ \E k \in Keys \ {last.req.ip} : hits[k].totalHits \in 1..PROXY_RATE_LIMIT

\* C4: the i-th call of pickNodeRoundRobin returns node i mod N of the list,
\* whatever number of handlers is suspended at its upstream await: the calls
\* read the counter values 0, 1, 2, ... without a repetition or a gap.
C4_RoundRobinOrder ==
  /\ rrCounter = Len(rrLog)
  /\ \A i \in 1..Len(rrLog) : rrLog[i] = ((i - 1) % NodeCount) + 1
  /\ ROTATION_MODE = "round_robin" /\ last.op = "proxy" /\ last.fetch.issued =>
       /\ Len(rrLog) > 0
       /\ last.fetch.node = rrLog[Len(rrLog)]
       /\ SubSeq(last.fetch.url, 1, Len(PROXY_NODES[last.fetch.node])) =
            PROXY_NODES[last.fetch.node]

\* more than N selections, the last ones made while two handlers wait for
\* their upstream
C4_Witness ==
  /\ ROTATION_MODE = "round_robin"
  /\ Len(rrLog) > NodeCount
  /\ \A i \in Slots : inflight[i].busy
  /\ last.op = "proxy"
  /\ last.fetch.issued

\* what sticky selection is resolved by, read off the request
HasIdentity(req) == req.ip # << >> \/ "X-Forwarded-For" \in DOMAIN req.wire
HasNodeCookie(req) ==
  "Cookie" \in DOMAIN req.wire /\ req.wire["Cookie"] \in {COOKIE_U3, COOKIE_ISSUED_U2}

RoundRobinSelection(req) ==
  \/ ROTATION_MODE = "round_robin"
  \/ ~HasIdentity(req) /\ ~HasNodeCookie(req)

\* C5: the counter advances by exactly 1 in a step that makes a round-robin
\* selection and is unchanged in every other step: a request answered 429, 401
\* or 400, /health, /validate-key, a sticky selection by IP hash or by cookie,
\* and the later success or failure of the upstream request; it never
\* decreases.
C5_CounterSteps ==
  [][/\ rrCounter' >= rrCounter
     /\ last'.op = "proxy" /\ last'.fetch.issued /\ RoundRobinSelection(last'.req) =>
          rrCounter' = rrCounter + 1
     /\ last'.op = "proxy" /\ last'.fetch.issued /\ ~RoundRobinSelection(last'.req) =>
          rrCounter' = rrCounter
     /\ last'.op = "proxy" /\ last'.status \in {429, 401, 400, 204} => rrCounter' = rrCounter
     /\ last'.op # "proxy" => rrCounter' = rrCounter]_vars

\* a sticky selection resolved by the cookie after the counter has advanced
C5_Witness ==
  /\ ROTATION_MODE = "sticky_by_ip"
  /\ rrCounter > 0
  /\ last.op = "proxy"
  /\ last.fetch.issued
  /\ HasNodeCookie(last.req)

\* C6: in sticky_by_ip mode the forwarded requests of one non-empty client
\* identity (the identity sticky selection derives from the request) all go to
\* the same node, whatever is handled in between.
C6_StickySameNode ==
  \A p \in stickyLog, q \in stickyLog : p[1] = q[1] => p[2] = q[2]

\* two identities forwarded, the counter advanced by other requests, and a
\* request of a logged identity forwarded again
C6_Witness ==
  /\ ROTATION_MODE = "sticky_by_ip"
  /\ Cardinality(stickyLog) = 2
  /\ rrCounter > 0
  /\ \A i \in Slots : inflight[i].busy
  /\ last.op = "proxy"
  /\ last.fetch.issued
  /\ last.req.ip = IP_A
  /\ hits[IP_A].totalHits >= 2

\* C7: a forwarded request that carries a forwarded-for header goes to the
\* node of the hash of the header's first IP token.
C7_ForwardedForFirst ==
  ROTATION_MODE = "sticky_by_ip" /\ last.op = "proxy" /\ last.fetch.issued
    /\ "X-Forwarded-For" \in DOMAIN last.req.wire =>
      last.fetch.node =
        WordMod(hashStringToInt(SplitFirst(last.req.wire["X-Forwarded-For"], ",")),
                NodeCount) + 1

\* C8: hashStringToInt returns the unsigned 32-bit FNV-1a value of its
\* argument.
C8_UnsignedFnv1a ==
  hashOut.done => hashOut.value = FnvLoop(hashIn, 1, FnvOffset)

\* the headers the claim lists for the request path
HopByHop ==
  {"connection", "proxy-authorization", "proxy-authenticate", "keep-alive",
   "transfer-encoding", "te", "trailers", "upgrade"}

RequestExcluded == HopByHop \cup {"host", "content-length", "accept-encoding"}

\* C9: the forwarded request carries none of the inbound headers connection,
\* proxy-authorization, proxy-authenticate, keep-alive, transfer-encoding, te,
\* trailers, upgrade, host, content-length, accept-encoding, whatever their
\* letter case, and every other inbound header with its value.
C9_RequestHeaders ==
  last.op = "proxy" /\ last.fetch.issued =>
    \A n \in DOMAIN last.req.wire :
      IF LowerName(n) \in RequestExcluded
      THEN LowerName(n) \notin DOMAIN last.fetch.headers
      ELSE /\ LowerName(n) \in DOMAIN last.fetch.headers
           /\ last.fetch.headers[LowerName(n)] = last.req.wire[n]

\* C10: the relayed response has the upstream's status, none of the upstream's
\* headers connection, proxy-authorization, proxy-authenticate, keep-alive,
\* transfer-encoding, te, trailers, upgrade, whatever their letter case, and
\* every other upstream header with its value.
C10_ResponseRelay ==
  last.op = "relay" =>
    /\ last.status = last.upstream.status
    /\ \A n \in DOMAIN last.upstream.wire :
         IF LowerName(n) \in HopByHop
         THEN LowerName(n) \notin DOMAIN last.headers
         ELSE /\ LowerName(n) \in DOMAIN last.headers
              /\ last.headers[LowerName(n)] = last.upstream.wire[n]

\* a 404 relayed from an upstream that sent every header of the model, to a
\* caller whose response already carried the sticky cookie
C10_Witness ==
  /\ last.op = "relay"
  /\ last.status = 404
  /\ DOMAIN last.upstream.wire = DOMAIN UpstreamHeaders
  /\ ROTATION_MODE = "sticky_by_ip"
  /\ "content-type" \in DOMAIN last.headers
  /\ "upgrade" \notin DOMAIN last.headers

\* the cookie the gateway issues for each node, written out
PinCookie ==
  << << "p", "r", "o", "x", "y", "-", "n", "o", "d", "e", "=", "h", "t", "t", "p", "%", "3", "A", "%", "2", "F", "%", "2", "F", "u", "1", ";", " ", "H", "t", "t", "p", "O", "n", "l", "y", ";", " ", "S", "e", "c", "u", "r", "e", ";", " ", "P", "a", "t", "h", "=", "/", ";", " ", "S", "a", "m", "e", "S", "i", "t", "e", "=", "L", "a", "x" >>,
     << "p", "r", "o", "x", "y", "-", "n", "o", "d", "e", "=", "h", "t", "t", "p", "%", "3", "A", "%", "2", "F", "%", "2", "F", "u", "2", "%", "2", "F", ";", " ", "H", "t", "t", "p", "O", "n", "l", "y", ";", " ", "S", "e", "c", "u", "r", "e", ";", " ", "P", "a", "t", "h", "=", "/", ";", " ", "S", "a", "m", "e", "S", "i", "t", "e", "=", "L", "a", "x" >>,
     << "p", "r", "o", "x", "y", "-", "n", "o", "d", "e", "=", "h", "t", "t", "p", "%", "3", "A", "%", "2", "F", "%", "2", "F", "u", "3", ";", " ", "H", "t", "t", "p", "O", "n", "l", "y", ";", " ", "S", "e", "c", "u", "r", "e", ";", " ", "P", "a", "t", "h", "=", "/", ";", " ", "S", "a", "m", "e", "S", "i", "t", "e", "=", "L", "a", "x" >> >>

\* C11: in sticky_by_ip mode every relayed response carries the Set-Cookie
\* that pins the node which served the request, also when the upstream
\* response has a Set-Cookie of its own; in round_robin mode the relayed
\* response has no Set-Cookie but the upstream's.
C11_StickyCookie ==
  last.op = "relay" =>
    IF ROTATION_MODE = "sticky_by_ip"
    THEN /\ "set-cookie" \in DOMAIN last.headers
         /\ last.headers["set-cookie"] = PinCookie[last.fetch.node]
    ELSE "set-cookie" \in DOMAIN last.headers =>
           /\ "Set-Cookie" \in DOMAIN last.upstream.wire
           /\ last.headers["set-cookie"] = last.upstream.wire["Set-Cookie"]

\* C11, the part the code keeps: the cookie is on the response when the
\* upstream sends no Set-Cookie
C11_StickyCookieUnlessUpstreamSets ==
  last.op = "relay" /\ "Set-Cookie" \notin DOMAIN last.upstream.wire =>
    IF ROTATION_MODE = "sticky_by_ip"
    THEN /\ "set-cookie" \in DOMAIN last.headers
         /\ last.headers["set-cookie"] = PinCookie[last.fetch.node]
    ELSE "set-cookie" \notin DOMAIN last.headers

\* the slots whose handler starts, and ends, waiting for its upstream in a step
Started == {i \in Slots : ~inflight[i].busy /\ inflight'[i].busy}
Ended == {i \in Slots : inflight[i].busy /\ ~inflight'[i].busy}

\* C12: a /proxy request issues one upstream request at most, when it is
\* handled; when that call fails, by the fetch or by the reading of the body,
\* the caller gets 502 with the body Bad Gateway, the handler ends and no
\* other upstream request is issued.
C12_NoRetry ==
  [][/\ last'.op = "proxy" =>
          /\ Cardinality(Started) = (IF last'.fetch.issued THEN 1 ELSE 0)
          /\ Ended = {}
     /\ last'.op \in {"fetch_error", "buffer_error"} =>
          /\ last'.status = 502
          /\ last'.body = "Bad Gateway"
          /\ ~last'.fetch.issued
          /\ Started = {}
          /\ Cardinality(Ended) = 1
     /\ last'.op = "relay" => ~last'.fetch.issued /\ Started = {} /\ Cardinality(Ended) = 1]_vars

\* the body of the upstream could not be read after its headers were copied,
\* and no handler is left waiting
C12_Witness ==
  /\ last.op = "buffer_error"
  /\ last.status = 502
  /\ last.body = "Bad Gateway"
  /\ DOMAIN last.upstream.wire = DOMAIN UpstreamHeaders
  /\ \A i \in Slots : ~inflight[i].busy

\* C13: every handler that waits for its upstream is answered eventually,
\* also when the upstream never answers.
C13_EventuallyAnswered ==
  \A i \in Slots : inflight[i].busy ~> ~inflight[i].busy

\* the upstream bases without their trailing slash and the percent-encoded
\* targets, written out
BaseNoSlash == << << "h", "t", "t", "p", ":", "/", "/", "u", "1" >>, << "h", "t", "t", "p", ":", "/", "/", "u", "2" >>, << "h", "t", "t", "p", ":", "/", "/", "u", "3" >> >>

EncodedTarget(u) ==
  CASE u = URL_OK -> << "h", "t", "t", "p", "s", "%", "3", "A", "%", "2", "F", "%", "2", "F", "a", ".", "i", "o" >>
    [] u = URL_HTTP -> << "H", "T", "T", "P", "%", "3", "A", "%", "2", "F", "%", "2", "F", "a", ".", "i", "o", "%", "2", "F", "x", "%", "3", "F", "y", "%", "3", "D", "1" >>

\* C14: the upstream request of an accepted /proxy request goes to
\* <base without trailing slash>/proxy?url=<percent-encoded target> and carries
\* the validated token in x-proxy-auth, whether the token came in the header
\* or in the query.
C14_UpstreamRequest ==
  last.op = "proxy" /\ last.fetch.issued =>
    /\ last.fetch.url =
         BaseNoSlash[last.fetch.node] \o << "/", "p", "r", "o", "x", "y", "?", "u", "r", "l", "=" >> \o EncodedTarget(last.req.url)
    /\ "x-proxy-auth" \in DOMAIN last.fetch.headers
    /\ last.fetch.headers["x-proxy-auth"] = Presented(last.req)
    /\ Presented(last.req) \in VALID_TOKENS
    /\ last.fetch.method = last.req.method

\* a token from the query, forwarded to the node whose base ends with a slash
C14_Witness ==
  /\ last.op = "proxy"
  /\ last.fetch.issued
  /\ PROXY_NODES[last.fetch.node] = U2
  /\ "X-Proxy-Auth" \notin DOMAIN last.req.wire
  /\ last.req.token = TOKEN_ABC
  /\ last.req.url = URL_HTTP

\* the request presents a token in the header and one in the query
BothTokens(req) ==
  /\ "X-Proxy-Auth" \in DOMAIN req.wire
  /\ req.wire["X-Proxy-Auth"] # << >>
  /\ req.token # << >>

\* C15: of a token in the x-proxy-auth header and one in the query only the
\* header's is validated and forwarded: an invalid header token with a valid
\* query token gives 401, a valid header token with an invalid query token is
\* accepted and forwarded.
C15_HeaderWins ==
  last.op = "proxy" /\ BothTokens(last.req) /\ ReachesLimiter(last.req)
    /\ hits[last.req.ip].totalHits <= PROXY_RATE_LIMIT /\ last.req.url \in HttpUrls =>
      IF last.req.wire["X-Proxy-Auth"] \in VALID_TOKENS
      THEN /\ last.fetch.issued
           /\ last.fetch.headers["x-proxy-auth"] = last.req.wire["X-Proxy-Auth"]
      ELSE last.status = 401 /\ ~last.fetch.issued

C15_Witness ==
  /\ last.op = "proxy"
  /\ last.req.wire = Tok(TOKEN_ABC)
  /\ last.req.token = TOKEN_BAD
  /\ last.fetch.issued
  /\ last.fetch.headers["x-proxy-auth"] = TOKEN_ABC

\* C16: isValidToken(t) is true exactly when t is not empty and is one of the
\* configured tokens; with no token configured it is false for every t, the
\* empty string included; the configuration is as it was.
C16_TokenValidity ==
  tokenOut.done =>
    /\ tokenOut.value = (Len(tokenIn) > 0 /\ \E v \in VALID_TOKENS : v = tokenIn)
    /\ VALID_TOKENS = {} => tokenOut.value = FALSE
    /\ VALID_TOKENS \in TokenConfigs

\* the empty string refused when no token is configured
C16_Witness ==
  /\ tokenOut.done
  /\ tokenIn = << >>
  /\ VALID_TOKENS = {}
  /\ tokenOut.value = FALSE

\* the token a /validate-key body of the model carries, read off its text
BodyToken(raw) ==
  CASE raw = "{'token':'abc'}" -> TOKEN_ABC
    [] raw = "{'token':'bad'}" -> TOKEN_BAD
    [] OTHER -> << >>

\* C17: POST /validate-key answers 400 to a body without a token, 200 to a
\* valid token and 401 to an invalid one, never 429; it leaves the round-robin
\* counter, every rate window and the waiting handlers as they were and issues
\* no upstream request.
C17_ValidateKey ==
  [][last'.op = "validate-key" /\ last'.req.method = "POST" =>
       /\ last'.status =
            IF BodyToken(last'.req.raw) = << >> THEN 400
            ELSE IF BodyToken(last'.req.raw) \in VALID_TOKENS THEN 200
            ELSE 401
       /\ rrCounter' = rrCounter
       /\ rrLog' = rrLog
       /\ hits' = hits
       /\ inflight' = inflight
       /\ ~last'.fetch.issued]_vars

\* a valid key confirmed for a client whose rate window is exhausted, while a
\* handler waits for its upstream
C17_Witness ==
  /\ last.op = "validate-key"
  /\ last.status = 200
  /\ hits[last.req.ip].totalHits > PROXY_RATE_LIMIT
  /\ \E i \in Slots : inflight[i].busy
  /\ rrCounter > 0

\* C18: every shim variant that redirects an intercepted request to the
\* gateway, after the page has set a token, sends that token in the
\* x-proxy-auth header of the redirected request.
C18_TokenAttached ==
  shimLast.redirected /\ sentToken # << >> =>
    /\ "x-proxy-auth" \in DOMAIN shimLast.headers
    /\ shimLast.headers["x-proxy-auth"] = sentToken

\* C18, the variants that keep it: sw-proxy.js and part_001
C18_TokenAttachedByTokenVariants ==
  shim # PART_000 /\ shimLast.redirected /\ sentToken # << >> =>
    /\ "x-proxy-auth" \in DOMAIN shimLast.headers
    /\ shimLast.headers["x-proxy-auth"] = sentToken

\* C19: no shim variant redirects a request whose origin is the origin of the
\* proxy host it is configured with at that time.
C19_NoGatewayLoop ==
  shimLast.redirected => originOf[shimLast.url].origin # originOf[PROXY_HOST].origin

\* C19, the variant that keeps it: part_001 compares origins
C19_NoGatewayLoopPart001 ==
  shim = PART_001 /\ shimLast.redirected =>
    originOf[shimLast.url].origin # originOf[PROXY_HOST].origin

\* the configured node a request's proxy-node cookie names, 0 when it names
\* none, read off the cookie header
NodeOfCookie(req) ==
  IF "Cookie" \notin DOMAIN req.wire THEN 0
  ELSE CASE req.wire["Cookie"] = COOKIE_U3 -> 3
         [] req.wire["Cookie"] = COOKIE_ISSUED_U2 -> 2
         [] OTHER -> 0

\* a /proxy request that passed the limiter, the token check and the URL check
ReachesSelection(o) ==
  o.op = "proxy" /\ o.status \notin {429, 401, 400, 204}

\* C20: in sticky_by_ip mode a request without a client identity is forwarded
\* to the node its proxy-node cookie names, with the counter unchanged, and
\* without such a cookie, or with a value that is no configured node, to the
\* node of round robin, with the counter advanced by 1.
C20_CookieFallback ==
  [][ROTATION_MODE = "sticky_by_ip" /\ ReachesSelection(last')
       /\ ~HasIdentity(last'.req) =>
        /\ last'.fetch.issued
        /\ IF NodeOfCookie(last'.req) > 0
           THEN /\ last'.fetch.node = NodeOfCookie(last'.req)
                /\ rrCounter' = rrCounter
           ELSE /\ last'.fetch.node = (rrCounter % NodeCount) + 1
                /\ rrCounter' = rrCounter + 1]_vars

\* C20, the part the code keeps: cookie values that are well-formed
\* percent-encoding
C20_CookieFallbackWellFormed ==
  [][ROTATION_MODE = "sticky_by_ip" /\ ReachesSelection(last')
       /\ ~HasIdentity(last'.req)
       /\ ("Cookie" \in DOMAIN last'.req.wire => last'.req.wire["Cookie"] # COOKIE_BROKEN) =>
        /\ last'.fetch.issued
        /\ IF NodeOfCookie(last'.req) > 0
           THEN /\ last'.fetch.node = NodeOfCookie(last'.req)
                /\ rrCounter' = rrCounter
           ELSE /\ last'.fetch.node = (rrCounter % NodeCount) + 1
                /\ rrCounter' = rrCounter + 1]_vars

\* the cookie the gateway issues for node 2, as the client presents it back
C20_IssuedCookie ==
  PinCookie[2] = COOKIE_ISSUED_U2 \o << ";", " ", "H", "t", "t", "p", "O", "n", "l", "y", ";", " ", "S", "e", "c", "u", "r", "e", ";", " ", "P", "a", "t", "h", "=", "/", ";", " ", "S", "a", "m", "e", "S", "i", "t", "e", "=", "L", "a", "x" >>

\* C21: an accepted /proxy request whose method is neither GET nor HEAD and
\* whose body is not empty is forwarded with exactly the bytes of its body,
\* whatever its content type; a GET or HEAD request is forwarded without a
\* body.
C21_BodyVerbatim ==
  last.op = "proxy" /\ last.fetch.issued =>
    IF last.req.method \in {"GET", "HEAD"} THEN last.fetch.body = ""
    ELSE last.req.raw # "" => last.fetch.body = last.req.raw

\* C21, the part the code keeps: a body of a content type other than
\* application/json is forwarded as it came, GET and HEAD carry none
C21_BodyVerbatimUnlessJson ==
  last.op = "proxy" /\ last.fetch.issued =>
    IF last.req.method \in {"GET", "HEAD"} THEN last.fetch.body = ""
    ELSE last.req.raw # "" /\ "Content-Type" \in DOMAIN last.req.wire
           /\ last.req.wire["Content-Type"] # CT_JSON =>
         last.fetch.body = last.req.raw

\* C22: a header filter applied to a header collection it has already
\* filtered returns that collection, in the request and in the response
\* direction, for every collection over FilterNames.
C22_FilterIdempotent ==
  filterOut.dir # "none" => filterOut.twice = filterOut.once

\* a collection from which the request filter drops names in both letter
\* cases and keeps others
C22_Witness ==
  /\ filterOut.dir = "request"
  /\ {"Host", "connection", "TE", "accept"} \subseteq DOMAIN filterIn
  /\ DOMAIN filterOut.once # DOMAIN filterIn
  /\ "TE" \in DOMAIN filterOut.once

\* C23: for every rotation mode, counter value and request that reaches node
\* selection, selectUpstream returns a node of the configured list, the
\* request is forwarded to it, and the 500 response is never sent.
C23_NodeInList ==
  /\ last.status # 500
  /\ ReachesSelection(last) =>
       /\ last.fetch.issued
       /\ last.fetch.node \in 1..NodeCount

\* C23, the part the code keeps: whenever selectUpstream returns, it returns a
\* node of the list, and the 500 response is never sent
C23_NodeInListWhenReturned ==
  /\ last.status # 500
  /\ last.fetch.issued =>
       /\ last.fetch.node \in 1..NodeCount
       /\ startsWith(last.fetch.url, stripTrailingSlash(PROXY_NODES[last.fetch.node]))

\* C24: in sw-proxy.js each message changes only its own variable, to what
\* the message carries; a fetch event changes none of them and is redirected
\* only when the page's last ENABLE_PROXY / DISABLE_PROXY message was
\* ENABLE_PROXY and its last SET_PROXY_HOST message carried a non-empty host,
\* so that nothing is redirected between a DISABLE_PROXY and the next
\* ENABLE_PROXY.
C24_SwitchAndHost ==
  [][shim = SW_PROXY =>
       /\ shimLast'.op = "SET_PROXY_HOST" =>
            /\ PROXY_HOST' = sentHost'
            /\ PROXY_ENABLED' = PROXY_ENABLED
            /\ AUTH_TOKEN' = AUTH_TOKEN
       /\ shimLast'.op = "SET_AUTH_TOKEN" =>
            /\ AUTH_TOKEN' = sentToken'
            /\ PROXY_ENABLED' = PROXY_ENABLED
            /\ PROXY_HOST' = PROXY_HOST
       /\ shimLast'.op \in {"ENABLE_PROXY", "DISABLE_PROXY"} =>
            /\ PROXY_ENABLED' = (shimLast'.op = "ENABLE_PROXY")
            /\ PROXY_HOST' = PROXY_HOST
            /\ AUTH_TOKEN' = AUTH_TOKEN
       /\ shimLast'.op = "fetch" =>
            /\ PROXY_HOST' = PROXY_HOST
            /\ PROXY_ENABLED' = PROXY_ENABLED
            /\ AUTH_TOKEN' = AUTH_TOKEN
            /\ shimLast'.redirected =>
                 sentSwitch = "ENABLE_PROXY" /\ sentHost # << >>]_vars

\* sw-proxy.js redirects a request to the host the page set after a token
\* was set
C24_Witness ==
  /\ shim = SW_PROXY
  /\ shimLast.redirected
  /\ sentSwitch = "ENABLE_PROXY"
  /\ sentHost = HOST_GW_SLASH
  /\ sentToken = TOKEN_ABC
  /\ startsWith(shimLast.proxyUrl, HOST_GW_SLASH)

====
